---------------------------- MODULE Spec2Model ----------------------------
(***************************************************************************)
(* Kotori: the session orchestrator (KotoriBotAdapter), the push-channel   *)
(* connection manager (WebSocketConnectionManager) and the session         *)
(* registry (SessionManager), modelled as state machines.                  *)
(*                                                                         *)
(* Strings that the code inspects character by character (interrupt        *)
(* contents, user replies) are sequences of one-character strings, so that *)
(* normalisation, hashing keys and the similarity ratio are computed the   *)
(* way the code computes them.                                             *)
(***************************************************************************)
EXTENDS Integers, Sequences, FiniteSets, TLC

(***************************************************************************)
(* Characters                                                              *)
(***************************************************************************)

\* str.lower() on the upper-case letters that occur in the modelled texts
LowerOf ==
    ("A" :> "a") @@ ("B" :> "b") @@ ("C" :> "c") @@ ("D" :> "d") @@ ("E" :> "e") @@
    ("F" :> "f") @@ ("G" :> "g") @@ ("H" :> "h") @@ ("I" :> "i") @@ ("J" :> "j") @@
    ("K" :> "k") @@ ("L" :> "l") @@ ("M" :> "m") @@ ("N" :> "n") @@ ("O" :> "o") @@
    ("P" :> "p") @@ ("Q" :> "q") @@ ("R" :> "r") @@ ("S" :> "s") @@ ("T" :> "t") @@
    ("U" :> "u") @@ ("V" :> "v") @@ ("W" :> "w") @@ ("X" :> "x") @@ ("Y" :> "y") @@
    ("Z" :> "z")

LowerLetters ==
    <<"a", "b", "c", "d", "e", "f", "g", "h", "i", "j", "k", "l", "m",
      "n", "o", "p", "q", "r", "s", "t", "u", "v", "w", "x", "y", "z">>

Digits == <<"0", "1", "2", "3", "4", "5", "6", "7", "8", "9">>

\* the characters of the modelled texts in code-point order (Python compares
\* strings by code point); upper-case letters sit between the digits and "_"
CodePointOrder ==
    <<"\n", " ", "!", "'", ",", ".">> \o Digits \o <<":", "?">> \o
    <<"A", "B", "C", "D", "E", "F", "G", "H", "I", "J", "K", "L", "M",
      "N", "O", "P", "Q", "R", "S", "T", "U", "V", "W", "X", "Y", "Z">> \o
    <<"_">> \o LowerLetters \o <<"|">>

Range(s) == {s[i] : i \in DOMAIN s}

Ord(c) == CHOOSE i \in DOMAIN CodePointOrder : CodePointOrder[i] = c

IsSpace(c) == c \in {" ", "\n"}

IsLetter(c) == c \in Range(LowerLetters) \cup DOMAIN LowerOf

\* the regular-expression class \w
IsWordChar(c) == IsLetter(c) \/ c \in Range(Digits) \/ c = "_"

LowerChar(c) == IF c \in DOMAIN LowerOf THEN LowerOf[c] ELSE c

\* str.lower()
Lower(s) == [i \in DOMAIN s |-> LowerChar(s[i])]

\* str.strip()
Strip(s) ==
    LET keep == {i \in DOMAIN s : ~IsSpace(s[i])}
    IN  IF keep = {} THEN <<>>
        ELSE SubSeq(s, CHOOSE i \in keep : \A j \in keep : i <= j,
                       CHOOSE i \in keep : \A j \in keep : i >= j)

RECURSIVE CollapseFrom(_, _)
CollapseFrom(s, i) ==
    IF i > Len(s) THEN <<>>
    ELSE IF IsSpace(s[i])
         THEN (IF i > 1 /\ IsSpace(s[i - 1]) THEN <<>> ELSE <<" ">>) \o CollapseFrom(s, i + 1)
         ELSE <<s[i]>> \o CollapseFrom(s, i + 1)

\* re.sub(r'\s+', ' ', s)
CollapseSpaces(s) == CollapseFrom(s, 1)

\* re.sub(r'[^\w\s]', ' ', s)
PunctToSpace(s) == [i \in DOMAIN s |-> IF IsWordChar(s[i]) \/ IsSpace(s[i]) THEN s[i] ELSE " "]

RECURSIVE WordRunsFrom(_, _, _)
WordRunsFrom(s, i, cur) ==
    IF i > Len(s) THEN (IF cur = <<>> THEN <<>> ELSE <<cur>>)
    ELSE IF IsWordChar(s[i]) THEN WordRunsFrom(s, i + 1, Append(cur, s[i]))
    ELSE (IF cur = <<>> THEN <<>> ELSE <<cur>>) \o WordRunsFrom(s, i + 1, <<>>)

\* the maximal runs of \w characters of s, in order of occurrence
WordRuns(s) == WordRunsFrom(s, 1, <<>>)

\* re.findall(r'\b[a-zA-Z]+\b', s): a run of letters between two word
\* boundaries is a maximal \w run made of letters only
AlphaWords(s) == SelectSeq(WordRuns(s), LAMBDA w : \A i \in DOMAIN w : IsLetter(w[i]))

\* re.findall(r'\b\w{4,}\b', s)
KeyPhrases(s) == SelectSeq(WordRuns(s), LAMBDA w : Len(w) >= 4)

RECURSIVE StrLess(_, _)
StrLess(a, b) ==
    IF a = <<>> THEN b # <<>>
    ELSE IF b = <<>> THEN FALSE
    ELSE IF Ord(a[1]) # Ord(b[1]) THEN Ord(a[1]) < Ord(b[1])
    ELSE StrLess(Tail(a), Tail(b))

RECURSIVE SortedStrings(_)
\* sorted(S) for a set S of strings
SortedStrings(S) ==
    IF S = {} THEN <<>>
    ELSE LET m == CHOOSE x \in S : \A y \in S \ {x} : StrLess(x, y)
         IN  <<m>> \o SortedStrings(S \ {m})

RECURSIVE SortedList(_)
\* sorted(l) for a list l of strings (repeats kept)
SortedList(l) ==
    IF l = <<>> THEN <<>>
    ELSE LET k == CHOOSE i \in DOMAIN l : \A j \in DOMAIN l : ~StrLess(l[j], l[i])
         IN  <<l[k]>> \o SortedList(SubSeq(l, 1, k - 1) \o SubSeq(l, k + 1, Len(l)))

RECURSIVE Join(_, _)
\* sep.join(l)
Join(sep, l) ==
    IF l = <<>> THEN <<>>
    ELSE IF Len(l) = 1 THEN l[1]
    ELSE l[1] \o sep \o Join(sep, Tail(l))

(***************************************************************************)
(* difflib.SequenceMatcher(None, a, b).ratio()                             *)
(***************************************************************************)

\* the matching blocks of a[alo..ahi] and b[blo..bhi] as <<i, j, k>>
CommonBlocks(a, b, alo, ahi, blo, bhi) ==
    {t \in (alo..ahi) \X (blo..bhi) \X (1..(ahi - alo + 1)) :
        /\ t[1] + t[3] - 1 <= ahi
        /\ t[2] + t[3] - 1 <= bhi
        /\ \A d \in 0..(t[3] - 1) : a[t[1] + d] = b[t[2] + d]}

\* find_longest_match: the longest block; of those the one starting earliest
\* in a; of those the one starting earliest in b (no junk: the texts are
\* shorter than the 200 elements at which autojunk sets in)
LongestMatch(a, b, alo, ahi, blo, bhi) ==
    LET blocks == CommonBlocks(a, b, alo, ahi, blo, bhi)
    IN  CHOOSE t \in blocks : \A u \in blocks :
            \/ t[3] > u[3]
            \/ t[3] = u[3] /\ t[1] < u[1]
            \/ t[3] = u[3] /\ t[1] = u[1] /\ t[2] <= u[2]

RECURSIVE MatchTotal(_, _, _, _, _, _)
\* the summed sizes of get_matching_blocks(): the longest match, then the
\* same to its left and to its right
MatchTotal(a, b, alo, ahi, blo, bhi) ==
    IF alo > ahi \/ blo > bhi \/ CommonBlocks(a, b, alo, ahi, blo, bhi) = {} THEN 0
    ELSE LET m == LongestMatch(a, b, alo, ahi, blo, bhi)
         IN  m[3] + MatchTotal(a, b, alo, m[1] - 1, blo, m[2] - 1)
                  + MatchTotal(a, b, m[1] + m[3], ahi, m[2] + m[3], bhi)

\* ratio() = 2.0 * M / T as the pair <<2M, T>>; T = 0 gives 1.0
Ratio(a, b) ==
    IF Len(a) + Len(b) = 0 THEN <<1, 1>>
    ELSE <<2 * MatchTotal(a, b, 1, Len(a), 1, Len(b)), Len(a) + Len(b)>>


(***************************************************************************)
(* Texts                                                                   *)
(***************************************************************************)

\* the english greeting of the greeting node, cut after its first words
GreetingPrompt == <<"H", "e", "y", "!", " ", "I", "'", "m", " ", "K", "o", "t", "o", "r", "i">>

\* the english mode prompt of mode_selection_prompt, cut after its first words
ModePrompt ==
    <<"G", "r", "e", "a", "t", "!", " ", "N", "o", "w", ",", " ",
      "w", "h", "i", "c", "h", " ", "m", "o", "d", "e">>

\* what the LLM may answer in conversation and free_conversation: a text, the
\* same text with other punctuation, an unrelated text, and a text that
\* shares only its first long words with the unrelated one
TellMore == <<"T", "e", "l", "l", " ", "m", "e", " ", "m", "o", "r", "e">>

TellMoreBang == <<"T", "e", "l", "l", " ", "m", "e", " ", "m", "o", "r", "e", "!">>

\* the same text with a tail: 12 of its 18 characters match TellMore, a ratio
\* of 24/30
TellMoreOkay ==
    <<"T", "e", "l", "l", " ", "m", "e", " ", "m", "o", "r", "e", ",", " ", "o", "k", "a", "y">>

WhatTrees ==
    <<"W", "h", "a", "t", " ", "a", "b", "o", "u", "t", " ", "t", "r", "e", "e", "s", "?">>

TreesWhat ==
    <<"T", "r", "e", "e", "s", ":", " ", "a", "b", "o", "u", "t", " ",
      "w", "h", "a", "t", " ", "s", "i", "z", "e", "?">>

LLMContents == {TellMore, TellMoreBang, TellMoreOkay, WhatTrees, TreesWhat}

Contents == {GreetingPrompt, ModePrompt} \cup LLMContents

\* hashlib.md5(x.encode()).hexdigest() for the normalised forms of Contents
Md5Table ==
    (<<"h", "e", "y", "!", " ", "i", "'", "m", " ", "k", "o", "t", "o", "r", "i">> :>
        <<"8", "f", "5", "3", "3", "1", "8", "c", "1", "0", "0", "c", "f", "c", "4", "6", "e", "e", "2", "7", "b", "a", "4", "c", "f", "d", "2", "d", "5", "e", "5", "3">>) @@
    (<<"h", "e", "y", " ", "i", " ", "m", " ", "k", "o", "t", "o", "r", "i">> :>
        <<"9", "1", "e", "c", "8", "9", "c", "6", "9", "a", "7", "a", "b", "6", "f", "1", "4", "7", "e", "9", "1", "c", "2", "f", "5", "7", "3", "0", "6", "3", "4", "7">>) @@
    (<<"h", "e", "y", " ", "i", " ", "k", "o", "t", "o", "r", "i", " ", "m">> :>
        <<"a", "e", "5", "3", "4", "c", "9", "8", "5", "7", "4", "a", "6", "6", "4", "c", "0", "3", "a", "4", "5", "0", "1", "6", "b", "0", "8", "e", "3", "1", "8", "c">>) @@
    (<<"g", "r", "e", "a", "t", "!", " ", "n", "o", "w", ",", " ", "w", "h", "i", "c", "h", " ", "m", "o", "d", "e">> :>
        <<"0", "6", "1", "d", "a", "d", "b", "c", "9", "4", "a", "f", "6", "0", "d", "9", "5", "a", "2", "e", "1", "8", "f", "b", "b", "8", "f", "f", "3", "1", "e", "1">>) @@
    (<<"g", "r", "e", "a", "t", " ", "n", "o", "w", " ", "w", "h", "i", "c", "h", " ", "m", "o", "d", "e">> :>
        <<"5", "e", "3", "e", "b", "1", "1", "4", "d", "7", "c", "2", "a", "b", "3", "9", "f", "d", "b", "2", "7", "5", "f", "e", "5", "4", "9", "1", "3", "6", "e", "5">>) @@
    (<<"g", "r", "e", "a", "t", " ", "m", "o", "d", "e", " ", "n", "o", "w", " ", "w", "h", "i", "c", "h">> :>
        <<"7", "b", "c", "5", "a", "c", "f", "a", "0", "3", "e", "3", "a", "4", "d", "8", "9", "5", "7", "c", "9", "1", "1", "b", "a", "5", "9", "f", "e", "5", "7", "b">>) @@
    (<<"t", "e", "l", "l", " ", "m", "e", " ", "m", "o", "r", "e">> :>
        <<"6", "f", "e", "7", "2", "7", "6", "c", "9", "7", "4", "a", "1", "3", "e", "e", "8", "8", "9", "a", "9", "9", "6", "8", "7", "2", "1", "b", "6", "4", "2", "d">>) @@
    (<<"m", "e", " ", "m", "o", "r", "e", " ", "t", "e", "l", "l">> :>
        <<"d", "b", "a", "2", "9", "f", "0", "5", "5", "d", "d", "5", "3", "2", "a", "a", "a", "7", "5", "3", "7", "3", "5", "8", "a", "4", "6", "c", "d", "1", "1", "f">>) @@
    (<<"t", "e", "l", "l", " ", "m", "e", " ", "m", "o", "r", "e", "!">> :>
        <<"f", "9", "a", "e", "4", "6", "c", "8", "8", "f", "a", "1", "f", "8", "d", "c", "c", "a", "c", "f", "4", "a", "6", "c", "0", "4", "9", "1", "a", "6", "e", "f">>) @@
    (<<"w", "h", "a", "t", " ", "a", "b", "o", "u", "t", " ", "t", "r", "e", "e", "s", "?">> :>
        <<"9", "3", "b", "6", "b", "a", "d", "d", "0", "c", "3", "6", "a", "0", "b", "f", "5", "9", "6", "9", "3", "2", "4", "c", "e", "3", "3", "d", "3", "d", "9", "a">>) @@
    (<<"w", "h", "a", "t", " ", "a", "b", "o", "u", "t", " ", "t", "r", "e", "e", "s">> :>
        <<"5", "e", "e", "e", "a", "0", "2", "b", "e", "3", "d", "7", "c", "9", "8", "b", "2", "3", "4", "5", "a", "b", "9", "3", "e", "f", "4", "9", "2", "9", "c", "5">>) @@
    (<<"a", "b", "o", "u", "t", " ", "t", "r", "e", "e", "s", " ", "w", "h", "a", "t">> :>
        <<"b", "a", "1", "6", "9", "b", "e", "f", "9", "f", "6", "c", "3", "d", "2", "9", "9", "3", "5", "5", "4", "d", "5", "5", "a", "d", "4", "8", "4", "4", "9", "7">>) @@
    (<<"t", "r", "e", "e", "s", ":", " ", "a", "b", "o", "u", "t", " ", "w", "h", "a", "t", " ", "s", "i", "z", "e", "?">> :>
        <<"0", "e", "1", "4", "8", "b", "b", "3", "6", "1", "8", "b", "6", "6", "a", "d", "0", "4", "b", "a", "d", "8", "0", "f", "5", "5", "b", "4", "4", "e", "0", "2">>) @@
    (<<"t", "r", "e", "e", "s", " ", "a", "b", "o", "u", "t", " ", "w", "h", "a", "t", " ", "s", "i", "z", "e">> :>
        <<"7", "7", "4", "6", "8", "1", "0", "c", "a", "d", "8", "e", "a", "0", "3", "f", "7", "e", "1", "9", "b", "4", "3", "7", "9", "b", "e", "2", "9", "c", "4", "5">>) @@
    (<<"a", "b", "o", "u", "t", " ", "s", "i", "z", "e", " ", "t", "r", "e", "e", "s", " ", "w", "h", "a", "t">> :>
        <<"0", "b", "7", "9", "a", "6", "8", "9", "4", "c", "b", "2", "8", "9", "7", "d", "9", "d", "0", "b", "9", "0", "c", "6", "c", "0", "a", "9", "1", "a", "9", "e">>) @@
    (<<"t", "e", "l", "l", " ", "m", "e", " ", "m", "o", "r", "e", ",", " ", "o", "k", "a", "y">> :>
        <<"b", "5", "2", "8", "1", "8", "c", "8", "5", "0", "0", "0", "c", "f", "7", "0", "e", "a", "d", "c", "f", "4", "8", "2", "c", "b", "7", "9", "6", "b", "0", "1">>) @@
    (<<"t", "e", "l", "l", " ", "m", "e", " ", "m", "o", "r", "e", " ", "o", "k", "a", "y">> :>
        <<"1", "f", "0", "a", "c", "7", "d", "a", "4", "b", "e", "4", "c", "e", "3", "8", "3", "3", "9", "4", "4", "9", "c", "8", "f", "7", "4", "8", "f", "9", "f", "c">>) @@
    (<<"m", "e", " ", "m", "o", "r", "e", " ", "o", "k", "a", "y", " ", "t", "e", "l", "l">> :>
        <<"0", "0", "4", "6", "b", "f", "1", "b", "c", "a", "e", "7", "3", "e", "4", "e", "5", "7", "b", "d", "e", "6", "b", "0", "b", "7", "0", "4", "1", "9", "f", "7">>) @@
    (<<>> :>
        <<"d", "4", "1", "d", "8", "c", "d", "9", "8", "f", "0", "0", "b", "2", "0", "4", "e", "9", "8", "0", "0", "9", "9", "8", "e", "c", "f", "8", "4", "2", "7", "e">>)

Md5(x) == Md5Table[x]

(***************************************************************************)
(* The normalised forms _handle_interrupt compares                         *)
(***************************************************************************)

NormalizedV1(c) == CollapseSpaces(Lower(Strip(c)))

NormalizedV2(c) == Strip(CollapseSpaces(PunctToSpace(NormalizedV1(c))))

NormalizedV3(c) == Join(<<" ">>, SortedStrings(Range(AlphaWords(Lower(c)))))

\* all_checks
AllChecks(c) ==
    <<NormalizedV1(c), NormalizedV2(c), NormalizedV3(c),
      Md5(NormalizedV1(c)), Md5(NormalizedV2(c)), Md5(NormalizedV3(c))>>

HasPhraseSignature(c) == Len(KeyPhrases(Lower(c))) >= 3

\* '|'.join(sorted(key_phrases[:3]))
PhraseSignature(c) == Join(<<"|">>, SortedList(SubSeq(KeyPhrases(Lower(c)), 1, 3)))

\* check.startswith(('a','b','c','d','e','f')) and len(check) == 32
LooksLikeHash(check) == Len(check) = 32 /\ check[1] \in {"a", "b", "c", "d", "e", "f"}


(***************************************************************************)
(* Bounds and identifiers                                                  *)
(***************************************************************************)

MaxAdapters == 2

MaxSockets == 2

MaxSessions == 1

\* asyncio.Queue() has no capacity; the model stops accepting at this length
MaxQueue == 2

\* the counters kept for the properties stop counting here
MaxCount == 2

\* the user_message frames a conversation accepts before the user falls silent
MaxTurns == 3

AdapterIds == 1..MaxAdapters

SocketIds == 1..MaxSockets

SessionIds == 1..MaxSessions

\* "no session", "no socket", "no adapter"
Nobody == 0

\* what the user may type: a reply, and the word that ends the conversation
\* in another letter case
UserHello == <<"h", "i">>

UserExit == <<"E", "x", "i", "t">>

UserInputs == {UserHello, UserExit}

ExitWords == {<<"e", "x", "i", "t">>, <<"q", "u", "i", "t">>}

\* self.sent_message_contents / sent_message_hashes are cut back to
\* TrackKeep entries once they hold more than TrackLimit
TrackLimit == 100

TrackKeep == 50

\* a function with every value computed once
RECURSIVE TabulatedOn(_, _)
TabulatedOn(f, S) ==
    IF S = {} THEN <<>>
    ELSE LET x == CHOOSE y \in S : TRUE IN (x :> f[x]) @@ TabulatedOn(f, S \ {x})

Tabulated(f) == TabulatedOn(f, DOMAIN f)

\* user_input.lower(), tabulated
LowerInputTable == Tabulated([m \in UserInputs |-> Lower(m)])

LowerInput(m) == LowerInputTable[m]

Inc(n) == IF n < MaxCount THEN n + 1 ELSE n

(***************************************************************************)
(* The graph, as far as the drive loop sees it                              *)
(***************************************************************************)

\* langgraph's END
END == "__end__"

InteractiveNodes == {"greeting", "mode_selection_prompt", "conversation", "free_conversation"}

\* the nodes whose LLM call answers with a text of LLMContents
LLMTextNodes == {"conversation", "free_conversation"}

\* what the LLM answers in the conversation nodes
LLMAnswers == {TellMore, WhatTrees}

\* the value an interactive node hands to interrupt()
InterruptValues(node) ==
    CASE node = "greeting" -> {GreetingPrompt}
      [] node = "mode_selection_prompt" -> {ModePrompt}
      [] OTHER -> LLMAnswers

\* state["next"] as the node leaves it once it ran to its end
NextAfter(node) ==
    CASE node = "greeting" -> {"mode_selection_prompt"}
      [] node = "mode_selection_prompt" -> {"mode_selection"}
      [] node = "mode_selection" -> {"free_conversation", "retrieve_cards"}
      [] node = "retrieve_cards" -> {"conversation", "free_conversation"}
      [] node = "conversation" -> {"assessment"}
      [] node = "assessment" -> {"free_conversation", "retrieve_cards", "conversation"}
      [] node = "free_conversation" -> {"free_conversation_eval"}
      [] node = "free_conversation_eval" -> {"retrieve_cards", "free_conversation"}

\* the nodes that await the LLM and so can raise
RaisingNodes == {"mode_selection", "assessment", "free_conversation_eval"}

\* a router that goes back to the guided conversation whoever called
RouteAfterToolsToConversation(calling_node) == "conversation"

\* KotoriBot._route_after_tools
RouteAfterTools(calling_node) ==
    IF calling_node \in {"card_answer", "conversation", "assessment", "mode_selection",
                         "free_conversation"}
    THEN calling_node
    ELSE "mode_selection_prompt"

\* KotoriBot._route_next on the update a chunk carries: the update of the
\* tools node holds only "messages", so state.get("next", END) is END
RouteNext(chunk) ==
    IF chunk.tool_calls THEN "tools"
    ELSE IF chunk.has_next THEN chunk.next
    ELSE END

\* One step of app.astream on the thread's checkpoint: the chunks the pending
\* node can yield.  A node that was interrupted runs again from its first
\* line; interrupt() returns the resume value when the thread holds one and
\* raises the interrupt otherwise.
Chunk(kind, node, value, has_next, next, tool_calls, to) ==
    [kind |-> kind, node |-> node, value |-> value, has_next |-> has_next,
     next |-> next, tool_calls |-> tool_calls, to |-> to]

Raised(n) == Chunk("raise", n, <<>>, FALSE, END, FALSE, n)

Interrupted(n) == {Chunk("interrupt", n, v, FALSE, END, FALSE, n) : v \in InterruptValues(n)}

Completed(n) == {Chunk("update", n, <<>>, TRUE, x, FALSE, x) : x \in NextAfter(n)}

NodeChunks(g) ==
    LET n == g.pending
        resumed == g.resume # <<>>
    IN  IF n = "tools"
        THEN {Chunk("update", n, <<>>, FALSE, END, FALSE, RouteAfterTools(g.calling_node))}
        ELSE IF n \in LLMTextNodes
        THEN {Raised(n), Chunk("update", n, <<>>, TRUE, "tools", TRUE, "tools")}
             \cup (IF resumed THEN Completed(n) ELSE Interrupted(n))
        ELSE IF n \in InteractiveNodes
        THEN IF resumed THEN Completed(n) ELSE Interrupted(n)
        ELSE Completed(n) \cup (IF n \in RaisingNodes THEN {Raised(n)} ELSE {})

(***************************************************************************)
(* State                                                                   *)
(***************************************************************************)

VARIABLES
    sessions,            \* SessionManager.sessions
    conversations,       \* ConversationManager.conversations
    active_connections,  \* WebSocketConnectionManager.active_connections
    session_adapters,    \* WebSocketConnectionManager.session_adapters
    websockets,          \* one websocket_endpoint call per socket
    adapters,            \* the KotoriBotAdapter objects
    tasks,               \* KotoriBotAdapter.conversation_task, one per adapter
    threads,             \* the graph's checkpoint of each adapter's thread
    seen                 \* what an observer of the run has counted

vars == <<sessions, conversations, active_connections, session_adapters, websockets,
          adapters, tasks, threads, seen>>

connVars == <<sessions, active_connections, session_adapters, websockets>>

\* KotoriBotAdapter.__init__ and _setup_interrupt_handler
NewAdapter(sid) ==
    [created |-> TRUE, session_id |-> sid, conversation_active |-> FALSE,
     waiting_for_input |-> FALSE, input_queue |-> <<>>,
     last_interrupt_age |-> "None", last_interrupt_content |-> <<>>,
     sent_message_contents |-> {}, sent_message_hashes |-> {}]

NoAdapter == [NewAdapter(Nobody) EXCEPT !.created = FALSE]

\* the locals of _run_conversation_loop and where the task is suspended
NoTask ==
    [pc |-> "none", resume |-> FALSE, need_break |-> FALSE, processing_stream |-> FALSE,
     initial_run |-> TRUE, resuming |-> FALSE, message |-> <<>>]

\* get_init_kotori_state on a new thread id: the entry node is pending
NewThread == [pending |-> "greeting", calling_node |-> "", resume |-> <<>>]

NoCounts == [c \in Contents |-> 0]

\* the streams that raised since a node last ran, counted up to here
MaxRaises == 5

\* the count of raises, for the behaviours that keep it
NoRaises == [counting |-> FALSE, n |-> 0]

CountRaise(r) == IF r.counting /\ r.n < MaxRaises THEN [r EXCEPT !.n = @ + 1] ELSE r

CountRun(r) == [r EXCEPT !.n = 0]

\* per adapter: interrupts observed per content, ai_response events handed to
\* a socket per content, resumes since the last accepted interrupt, chunks
\* handled since stop_conversation, user messages enqueued, streams that
\* raised in a row
NothingSeen ==
    [observed |-> NoCounts, pushed |-> NoCounts, resumes |-> 0, after_stop |-> 0, turns |-> 0,
     timeouts |-> 0, raises |-> NoRaises]

(***************************************************************************)
(* ConversationManager                                                     *)
(***************************************************************************)

Ids(conv) == {conv[i].id : i \in 1..Len(conv)}

\* uuid.uuid4(): an id no stored message has
FreshId(conv) == CHOOSE n \in 1..(Len(conv) + 1) : n \notin Ids(conv)

RecentWindow == 5

\* a content check that looks at every stored message
WholeHistory(conv) == conv

RecentMessages(conv) ==
    IF Len(conv) > RecentWindow THEN SubSeq(conv, Len(conv) - RecentWindow + 1, Len(conv)) ELSE conv

\* a user text between blanks and in another letter case
HelloPadded == <<" ", "H", "I", " ">>

\* the texts handed to the conversation store directly
StoreTexts == {UserHello, HelloPadded, UserExit, TellMore}

\* message.content.strip().lower(), tabulated over the texts a message can carry
StoreNormalTable == Tabulated([c \in Contents \cup UserInputs \cup StoreTexts |-> Lower(Strip(c))])

StoreNormal(c) == StoreNormalTable[c]

\* an add without duplicate prevention
AppendMessage(conv, message) == Append(conv, message)

\* ConversationManager.add_message
AddMessage(conv, message) ==
    LET recent_messages == RecentMessages(conv)
    IN  IF \E i \in 1..Len(conv) : conv[i].id = message.id THEN conv
        ELSE IF \E i \in 1..Len(recent_messages) :
                    /\ recent_messages[i].message_type = message.message_type
                    /\ StoreNormal(recent_messages[i].content) = StoreNormal(message.content)
             THEN conv
             ELSE Append(conv, message)

NewMessage(conv, type, content) == [id |-> FreshId(conv), message_type |-> type, content |-> content]


(***************************************************************************)
(* KotoriBotAdapter._handle_interrupt: the duplicate filter                *)
(***************************************************************************)

\* The filter's functions of the interrupt value, tabulated over the texts
\* the graph can produce
SimilarityTable == Tabulated([p \in Contents \X Contents |-> Ratio(p[1], p[2])])

Similarity(a, b) == SimilarityTable[<<a, b>>]

ChecksTable == Tabulated([c \in Contents |-> AllChecks(c)])

Checks(c) == ChecksTable[c]

SignatureTable ==
    Tabulated([c \in Contents |-> IF HasPhraseSignature(c) THEN <<PhraseSignature(c)>> ELSE <<>>])

Signature(c) == SignatureTable[c]

\* similarity > 0.80, on the ratio <<2 * matches, total length>>
SimilarityPercent == 80

TooSimilar(r) == 100 * r[1] > SimilarityPercent * r[2]

\* set(list(s)[-50:]) keeps TrackKeep elements in the set's iteration order,
\* which the program does not control
Trimmed(S) ==
    IF Cardinality(S) > TrackLimit
    THEN {T \in SUBSET S : Cardinality(T) = TrackKeep}
    ELSE {S}

StoredContents(ad, c) ==
    ad.sent_message_contents
        \cup Range(Signature(c))
        \cup {Checks(c)[i] : i \in {j \in 1..6 : /\ Len(Checks(c)[j]) > 0
                                                    /\ ~LooksLikeHash(Checks(c)[j])}}

StoredHashes(ad, c) ==
    ad.sent_message_hashes
        \cup {Checks(c)[i] : i \in {j \in 1..6 : /\ Len(Checks(c)[j]) > 0
                                                    /\ LooksLikeHash(Checks(c)[j])}}

Suppressed(ad) == {[ad |-> [ad EXCEPT !.waiting_for_input = TRUE], accepted |-> FALSE]}

\* the adapter after _handle_interrupt ran on content c up to its callback,
\* and whether the ai_response callback is invoked
HandleInterrupt(ad, c) ==
    IF ad.waiting_for_input
    THEN {[ad |-> ad, accepted |-> FALSE]}
    ELSE IF ad.last_interrupt_age = "lt_cooldown"
    THEN Suppressed(ad)
    ELSE IF /\ ad.last_interrupt_content # <<>>
            /\ TooSimilar(Similarity(ad.last_interrupt_content[1], c))
    THEN Suppressed(ad)
    ELSE IF \E i \in 1..6 : \/ Checks(c)[i] \in ad.sent_message_contents
                            \/ Checks(c)[i] \in ad.sent_message_hashes
    THEN Suppressed(ad)
    ELSE IF Signature(c) # <<>> /\ Signature(c)[1] \in ad.sent_message_contents
    THEN Suppressed(ad)
    ELSE {[ad |-> [ad EXCEPT !.last_interrupt_age = "lt_cooldown",
                             !.last_interrupt_content = <<c>>,
                             !.sent_message_contents = kc,
                             !.sent_message_hashes = kh,
                             !.waiting_for_input = TRUE],
           accepted |-> TRUE] : kc \in Trimmed(StoredContents(ad, c)),
                                kh \in Trimmed(StoredHashes(ad, c))}

(***************************************************************************)
(* KotoriBotAdapter._run_conversation_loop                                 *)
(***************************************************************************)

\* the while test and the choice of branch, up to the next await
LoopTop(ad, t) ==
    IF ~ad.conversation_active \/ t.need_break
    THEN [t EXCEPT !.pc = "done"]
    ELSE IF ~t.resume /\ ~t.processing_stream
    THEN [t EXCEPT !.pc = "stream", !.processing_stream = TRUE, !.initial_run = FALSE,
                   !.resuming = FALSE]
    ELSE [t EXCEPT !.pc = "input"]

\* after _handle_interrupt returned: resume = True; break; in the resume
\* branch the statement after the for loop then runs; finally
AfterInterrupt(t) ==
    [t EXCEPT !.resume = IF t.resuming THEN FALSE ELSE TRUE,
              !.processing_stream = FALSE, !.message = <<>>]

\* WebSocketConnectionManager.send_event; of the payload, data keeps the
\* error text or the reason of a conversation_end
SendEvent(ws, conns, sid, event_type, data) ==
    IF sid \in DOMAIN conns /\ conns[sid] # Nobody
    THEN [ws EXCEPT ![conns[sid]].last_event = [event_type |-> event_type, data |-> data]]
    ELSE ws

\* the task runs for the first time after asyncio.create_task
TaskStart(a) ==
    /\ tasks[a].pc = "created"
    /\ tasks' = [tasks EXCEPT ![a] = LoopTop(adapters[a], @)]
    /\ UNCHANGED <<connVars, conversations, adapters, threads, seen>>

\* the stream yields "__interrupt__"
OnInterrupt(a, ch) ==
    \E r \in HandleInterrupt(adapters[a], ch.value) :
        /\ adapters' = [adapters EXCEPT ![a] = r.ad]
        /\ threads' = threads
        /\ UNCHANGED connVars
        /\ IF r.accepted
           THEN /\ conversations' =
                     [conversations EXCEPT ![adapters[a].session_id] =
                         AddMessage(@, NewMessage(@, "ai", ch.value))]
                /\ tasks' = [tasks EXCEPT ![a].pc = "ai_response", ![a].message = ch.value]
                /\ seen' = [seen EXCEPT ![a].observed[ch.value] = Inc(@),
                                        ![a].resumes = 0,
                                        ![a].raises = CountRun(@),
                                        ![a].after_stop =
                                            IF adapters[a].conversation_active THEN @ ELSE Inc(@)]
           ELSE /\ conversations' = conversations
                /\ tasks' = [tasks EXCEPT ![a] = LoopTop(r.ad, AfterInterrupt(@))]
                /\ seen' = [seen EXCEPT ![a].observed[ch.value] = Inc(@),
                                        ![a].raises = CountRun(@),
                                        ![a].after_stop =
                                            IF adapters[a].conversation_active THEN @ ELSE Inc(@)]

\* hasattr(state, name) on the dict a chunk carries: the keys of a dict are
\* not its attributes
StateHasAttr(name) == FALSE

\* KotoriBotAdapter._handle_state_update: the state_change callback, then
\* one tool_call callback for each tool call of the last message
HandleStateUpdate(ws, conns, sid, ch) ==
    LET changed == SendEvent(ws, conns, sid, "state_change", "")
    IN  IF StateHasAttr("messages") /\ ch.tool_calls
        THEN SendEvent(changed, conns, sid, "tool_call", "")
        ELSE changed

\* the stream yields a node's update: _handle_state_update with its
\* state_change callback, then the test for the end of the graph; the loop
\* waits for the next chunk, or has returned
OnUpdate(a, ch) ==
    LET sid == adapters[a].session_id
        sent == HandleStateUpdate(websockets, active_connections, sid, ch)
    IN  /\ threads' = [threads EXCEPT ![a].pending = ch.to,
                                      ![a].calling_node =
                                          IF ch.node \in LLMTextNodes THEN ch.node ELSE @,
                                      ![a].resume = <<>>]
        /\ sessions' = [sessions EXCEPT ![sid].current_node =
                                            IF sessions[sid].exists THEN ch.node ELSE @]
        /\ seen' = [seen EXCEPT ![a].raises = CountRun(@),
                                ![a].after_stop =
                                    IF adapters[a].conversation_active THEN @ ELSE Inc(@)]
        /\ IF RouteNext(ch) = "END"
           THEN /\ adapters' = [adapters EXCEPT ![a].conversation_active = FALSE]
                /\ websockets' = SendEvent(sent, active_connections, sid, "conversation_end", "completed")
                /\ tasks' = [tasks EXCEPT ![a].pc = "done", ![a].processing_stream = FALSE]
           ELSE /\ adapters' = adapters
                /\ websockets' = sent
                /\ tasks' = tasks
        /\ UNCHANGED <<conversations, active_connections, session_adapters>>

\* the stream raises: _notify_error with its error callback, then the resume
\* branch continues with the while test and the other branch sleeps a second
OnRaise(a) ==
    /\ websockets' = SendEvent(websockets, active_connections, adapters[a].session_id, "error",
                               IF tasks[a].resuming THEN "Conversation resume error"
                               ELSE "Conversation flow error")
    /\ tasks' = [tasks EXCEPT ![a] =
                    IF @.resuming
                    THEN [@ EXCEPT !.processing_stream = FALSE, !.resume = FALSE, !.pc = "error"]
                    ELSE [@ EXCEPT !.processing_stream = FALSE, !.pc = "sleep"]]
    /\ seen' = [seen EXCEPT ![a].raises = CountRaise(@)]
    /\ UNCHANGED <<sessions, conversations, active_connections, session_adapters, adapters,
                   threads>>

\* async for chunk in app.astream(...): the next chunk arrives
StreamChunk(a) ==
    /\ tasks[a].pc = "stream"
    /\ \E ch \in NodeChunks(threads[a]) :
          IF ch.kind = "interrupt" THEN OnInterrupt(a, ch)
          ELSE IF ch.kind = "update" THEN OnUpdate(a, ch)
          ELSE OnRaise(a)

\* _handle_ai_response wakes from its sleep and sends; _handle_interrupt returns
AiResponseSent(a) ==
    /\ tasks[a].pc = "ai_response"
    /\ websockets' = SendEvent(websockets, active_connections, adapters[a].session_id, "ai_response", "")
    /\ seen' = [seen EXCEPT ![a].pushed[tasks[a].message] =
                    IF active_connections[adapters[a].session_id] # Nobody THEN Inc(@) ELSE @]
    /\ tasks' = [tasks EXCEPT ![a] = LoopTop(adapters[a], AfterInterrupt(@))]
    /\ UNCHANGED <<sessions, conversations, active_connections, session_adapters, adapters, threads>>

\* the error callback returns in the resume branch: continue
ErrorNotified(a) ==
    /\ tasks[a].pc = "error"
    /\ tasks' = [tasks EXCEPT ![a] = LoopTop(adapters[a], @)]
    /\ UNCHANGED <<connVars, conversations, adapters, threads, seen>>

\* the sleep after an error outside the resume branch is over: continue
RetryAfterSleep(a) ==
    /\ tasks[a].pc = "sleep"
    /\ tasks' = [tasks EXCEPT ![a] = LoopTop(adapters[a], @)]
    /\ UNCHANGED <<connVars, conversations, adapters, threads, seen>>

\* input_queue.get() returns
TakeInput(a) ==
    /\ tasks[a].pc = "input"
    /\ adapters[a].input_queue # <<>>
    /\ LET user_input == Head(adapters[a].input_queue) IN
       /\ adapters' = [adapters EXCEPT ![a].input_queue = Tail(@)]
       /\ IF LowerInput(user_input) \in ExitWords
          THEN /\ tasks' = [tasks EXCEPT ![a].need_break = TRUE, ![a].pc = "done"]
               /\ UNCHANGED <<threads, seen>>
          ELSE IF ~tasks[a].processing_stream
          THEN /\ tasks' = [tasks EXCEPT ![a].processing_stream = TRUE, ![a].resuming = TRUE,
                                         ![a].pc = "stream"]
               /\ threads' = [threads EXCEPT ![a].resume = <<user_input>>]
               /\ seen' = [seen EXCEPT ![a].resumes = Inc(@)]
          ELSE /\ tasks' = [tasks EXCEPT ![a] = LoopTop(adapters[a], [@ EXCEPT !.resume = FALSE])]
               /\ UNCHANGED <<threads, seen>>
    /\ UNCHANGED <<connVars, conversations>>

\* a timeout after which the loop takes the conversation for active and goes
\* round again
InputTimeoutGoesOn(a) ==
    /\ tasks[a].pc = "input"
    /\ adapters[a].input_queue = <<>>
    /\ adapters' = adapters
    /\ websockets' = SendEvent(websockets, active_connections, adapters[a].session_id,
                               "conversation_end", "timeout")
    /\ tasks' = [tasks EXCEPT ![a] = LoopTop(adapters[a], @)]
    /\ seen' = [seen EXCEPT ![a].timeouts = Inc(@)]
    /\ UNCHANGED <<sessions, conversations, active_connections, session_adapters, threads>>

\* asyncio.wait_for gives up after its 300 seconds: _notify_session_timeout
\* with the conversation_end callback, return
InputTimeout(a) ==
    /\ tasks[a].pc = "input"
    /\ adapters[a].input_queue = <<>>
    /\ adapters' = [adapters EXCEPT ![a].conversation_active = FALSE]
    /\ websockets' = SendEvent(websockets, active_connections, adapters[a].session_id,
                               "conversation_end", "timeout")
    /\ tasks' = [tasks EXCEPT ![a].pc = "done"]
    /\ seen' = [seen EXCEPT ![a].timeouts = Inc(@)]
    /\ UNCHANGED <<sessions, conversations, active_connections, session_adapters, threads>>

\* interrupt_cooldown seconds have passed since the last accepted interrupt
CooldownElapses(a) ==
    /\ adapters[a].last_interrupt_age = "lt_cooldown"
    /\ adapters' = [adapters EXCEPT ![a].last_interrupt_age = "ge_cooldown"]
    /\ UNCHANGED <<connVars, conversations, tasks, threads, seen>>


(***************************************************************************)
(* KotoriBotAdapter: what the connection manager calls                     *)
(***************************************************************************)

\* KotoriBotAdapter.stop_conversation
StopConversation(ad) == [ad EXCEPT !.conversation_active = FALSE, !.input_queue = <<>>]

\* a send_user_message that does not look at waiting_for_input
SendUserMessageUnguarded(ad, conv, message) ==
    [ok |-> TRUE,
     ad |-> [ad EXCEPT !.input_queue = Append(@, message), !.waiting_for_input = FALSE],
     conv |-> AddMessage(conv, NewMessage(conv, "user", message))]

\* KotoriBotAdapter.send_user_message with the user_message callback of the
\* connection manager; ok is the value it returns
SendUserMessage(ad, conv, message) ==
    IF ~ad.waiting_for_input
    THEN [ok |-> FALSE, ad |-> ad, conv |-> conv]
    ELSE [ok |-> TRUE,
          ad |-> [ad EXCEPT !.input_queue = Append(@, message), !.waiting_for_input = FALSE],
          conv |-> AddMessage(conv, NewMessage(conv, "user", message))]

(***************************************************************************)
(* WebSocketConnectionManager and websocket_endpoint                       *)
(***************************************************************************)

NoEvent == [event_type |-> "", data |-> ""]

\* alone: when the socket arrived, every other socket that had presented the
\* same id was closed
NewSocket ==
    [st |-> "new", session_id |-> Nobody, closed_with |-> "", last_event |-> NoEvent,
     alone |-> TRUE]

\* WebSocketConnectionManager.disconnect(session_id): the three tables after it
DisconnectConns(conns, sid) == [conns EXCEPT ![sid] = Nobody]

DisconnectAdapters(ads, sads, sid) ==
    IF sads[sid] # Nobody THEN [ads EXCEPT ![sads[sid]] = StopConversation(@)] ELSE ads

DisconnectSessionAdapters(sads, sid) == [sads EXCEPT ![sid] = Nobody]

\* WebSocketConnectionManager.handle_user_message, as the endpoint calls it
\* for a user_message frame of a socket it serves
HandleUserMessage(w, message) ==
    LET sid == websockets[w].session_id
        a == session_adapters[sid]
        r == SendUserMessage(adapters[a], conversations[sid], message)
    IN  /\ websockets[w].st = "serving"
        /\ a # Nobody
        /\ adapters[a].waiting_for_input =>
              Len(adapters[a].input_queue) < MaxQueue /\ seen[a].turns < MaxTurns
        /\ adapters' = [adapters EXCEPT ![a] = r.ad]
        /\ seen' = [seen EXCEPT ![a].turns = IF r.ok THEN @ + 1 ELSE @]
        /\ IF r.ok
           THEN /\ conversations' = [conversations EXCEPT ![sid] =
                                        AddMessage(r.conv, NewMessage(r.conv, "user", message))]
                /\ websockets' = SendEvent(websockets, active_connections, sid, "message_sent", "")
           ELSE /\ conversations' = [conversations EXCEPT ![sid] = r.conv]
                /\ websockets' = SendEvent(websockets, active_connections, sid, "error",
                                          "Failed to send message")
        /\ UNCHANGED <<sessions, active_connections, session_adapters, tasks, threads>>

\* a detach that closes the session as disconnect(session_id, force_close=True) would
ClientClosesForced(w) ==
    LET sid == websockets[w].session_id IN
    /\ websockets[w].st = "serving"
    /\ websockets' = [websockets EXCEPT ![w].st = "closed"]
    /\ active_connections' = DisconnectConns(active_connections, sid)
    /\ adapters' = DisconnectAdapters(adapters, session_adapters, sid)
    /\ session_adapters' = DisconnectSessionAdapters(session_adapters, sid)
    /\ sessions' = [sessions EXCEPT ![sid].is_active = FALSE]
    /\ UNCHANGED <<conversations, tasks, threads, seen>>

\* the endpoint's receive_text raises WebSocketDisconnect: disconnect(session_id)
ClientCloses(w) ==
    LET sid == websockets[w].session_id IN
    /\ websockets[w].st = "serving"
    /\ websockets' = [websockets EXCEPT ![w].st = "closed"]
    /\ active_connections' = DisconnectConns(active_connections, sid)
    /\ adapters' = DisconnectAdapters(adapters, session_adapters, sid)
    /\ session_adapters' = DisconnectSessionAdapters(session_adapters, sid)
    /\ UNCHANGED <<sessions, conversations, tasks, threads, seen>>

\* SessionManager.create_session: a record under a new uuid4, an id that is
\* not in use and that no client has presented before
CreateSession(sid) ==
    /\ ~sessions[sid].exists
    /\ \A w \in SocketIds : websockets[w].session_id # sid
    /\ sessions' = [sessions EXCEPT ![sid] = [exists |-> TRUE, is_active |-> TRUE,
                                               current_node |-> "None"]]
    /\ UNCHANGED <<conversations, active_connections, session_adapters, websockets, adapters,
                   tasks, threads, seen>>

\* connect up to its first await: the test for an attached socket, then
\* either close(1008, "Session already connected") or accept()
ConnectBegin(w, sid) ==
    /\ websockets[w].st = "new"
    /\ websockets' = [websockets EXCEPT ![w] =
          IF active_connections[sid] # Nobody
          THEN [@ EXCEPT !.st = "rejecting", !.session_id = sid, !.alone = FALSE,
                         !.closed_with = "Session already connected"]
          ELSE [@ EXCEPT !.st = "accepting", !.session_id = sid,
                         !.alone = \A w2 \in SocketIds :
                                      websockets[w2].session_id = sid =>
                                          websockets[w2].st = "closed"]]
    /\ UNCHANGED <<sessions, conversations, active_connections, session_adapters, adapters,
                   tasks, threads, seen>>

\* close() returned, connect returns, receive_text raises on the closed
\* socket and the endpoint calls disconnect(session_id)
ConnectRejected(w) ==
    LET sid == websockets[w].session_id IN
    /\ websockets[w].st \in {"rejecting", "not_found"}
    /\ websockets' = [websockets EXCEPT ![w].st = "closed"]
    /\ active_connections' = DisconnectConns(active_connections, sid)
    /\ adapters' = DisconnectAdapters(adapters, session_adapters, sid)
    /\ session_adapters' = DisconnectSessionAdapters(session_adapters, sid)
    /\ UNCHANGED <<sessions, conversations, tasks, threads, seen>>

FreeAdapters == {a \in AdapterIds : ~adapters[a].created}

\* connect on the session it found: an inactive session is reactivated and
\* update_session_activity stamps it where the record carries last_activity
Reactivated(session) ==
    IF session.is_active THEN session
    ELSE IF "last_activity" \in DOMAIN session
    THEN [session EXCEPT !.is_active = TRUE, !.last_activity = seen.now]
    ELSE [session EXCEPT !.is_active = TRUE]

\* accept() returned: the socket is registered and the session looked up.
\* _setup_kotori_adapter raises when the environment lacks an AZURE_*
\* variable or the config object has no temperature attribute; the endpoint
\* then calls disconnect(session_id).
ConnectAccepted(w) ==
    LET sid == websockets[w].session_id
        conns == [active_connections EXCEPT ![sid] = w]
        old == session_adapters[sid]
        stopped == IF old # Nobody THEN [adapters EXCEPT ![old] = StopConversation(@)]
                   ELSE adapters
    IN  /\ websockets[w].st = "accepting"
        /\ IF ~sessions[sid].exists
           THEN /\ active_connections' = conns
                /\ websockets' = [SendEvent(websockets, conns, sid, "error", "Session not found")
                                     EXCEPT ![w].st = "not_found",
                                            ![w].closed_with = "Session not found"]
                /\ UNCHANGED <<sessions, session_adapters, adapters, tasks, threads, seen>>
           ELSE /\ sessions' = [sessions EXCEPT ![sid] = Reactivated(@)]
                /\ \E setup_ok \in BOOLEAN :
                      IF setup_ok
                      THEN \E a \in FreeAdapters :
                              /\ a = CHOOSE x \in FreeAdapters : \A y \in FreeAdapters : x <= y
                              /\ active_connections' = conns
                              /\ session_adapters' = [session_adapters EXCEPT ![sid] = a]
                              /\ adapters' = [stopped EXCEPT ![a] =
                                    [NewAdapter(sid) EXCEPT !.conversation_active = TRUE]]
                              /\ tasks' = [tasks EXCEPT ![a].pc = "created"]
                              /\ threads' = [threads EXCEPT ![a] = NewThread]
                              /\ websockets' =
                                    [SendEvent(websockets, conns, sid, "connection_established", "")
                                        EXCEPT ![w].st = "serving"]
                      ELSE /\ active_connections' = DisconnectConns(conns, sid)
                           /\ session_adapters' = DisconnectSessionAdapters(session_adapters, sid)
                           /\ adapters' = stopped
                           /\ websockets' = [websockets EXCEPT ![w].st = "closed",
                                                               ![w].closed_with = "error"]
                           /\ UNCHANGED <<tasks, threads>>
                /\ UNCHANGED seen
        /\ UNCHANGED conversations


(***************************************************************************)
(* Specifications                                                          *)
(***************************************************************************)

NoSession == [exists |-> FALSE, is_active |-> FALSE, current_node |-> "None"]

\* the server after start-up: no session, no socket, no adapter
InitConn ==
    /\ sessions = [s \in SessionIds |-> NoSession]
    /\ conversations = [s \in SessionIds |-> <<>>]
    /\ active_connections = [s \in SessionIds |-> Nobody]
    /\ session_adapters = [s \in SessionIds |-> Nobody]
    /\ websockets = [w \in SocketIds |-> NewSocket]
    /\ adapters = [a \in AdapterIds |-> NoAdapter]
    /\ tasks = [a \in AdapterIds |-> NoTask]
    /\ threads = [a \in AdapterIds |-> NewThread]
    /\ seen = [a \in AdapterIds |-> NothingSeen]

\* sessions are created, sockets attach and detach, every adapter's loop runs
\* up to its first wait for input; no user_message frame is sent
NextConn ==
    \/ \E sid \in SessionIds : CreateSession(sid)
    \/ \E w \in SocketIds, sid \in SessionIds : ConnectBegin(w, sid)
    \/ \E w \in SocketIds : ConnectAccepted(w)
    \/ \E w \in SocketIds : ConnectRejected(w)
    \/ \E w \in SocketIds : ClientCloses(w)
    \/ \E a \in AdapterIds : TaskStart(a)
    \/ \E a \in AdapterIds : StreamChunk(a)
    \/ \E a \in AdapterIds : AiResponseSent(a)
    \/ \E a \in AdapterIds : InputTimeout(a)

SpecConn == InitConn /\ [][NextConn]_vars

\* one session right after its first socket attached: connect has registered
\* the socket, built the adapter and started its conversation task
InitLoop ==
    /\ sessions = [s \in SessionIds |->
                      IF s = 1 THEN [exists |-> TRUE, is_active |-> TRUE, current_node |-> "None"]
                      ELSE NoSession]
    /\ conversations = [s \in SessionIds |-> <<>>]
    /\ active_connections = [s \in SessionIds |-> IF s = 1 THEN 1 ELSE Nobody]
    /\ session_adapters = [s \in SessionIds |-> IF s = 1 THEN 1 ELSE Nobody]
    /\ websockets = [w \in SocketIds |->
                        IF w = 1 THEN [NewSocket EXCEPT !.st = "serving", !.session_id = 1,
                                                        !.last_event = [event_type |-> "connection_established",
                                                                        data |-> ""]]
                        ELSE NewSocket]
    /\ adapters = [a \in AdapterIds |->
                      IF a = 1 THEN [NewAdapter(1) EXCEPT !.conversation_active = TRUE]
                      ELSE NoAdapter]
    /\ tasks = [a \in AdapterIds |-> IF a = 1 THEN [NoTask EXCEPT !.pc = "created"] ELSE NoTask]
    /\ threads = [a \in AdapterIds |-> NewThread]
    /\ seen = [a \in AdapterIds |-> NothingSeen]

\* the conversation of that session: the loop runs, the user types, time
\* passes, the client goes away
NextLoop ==
    \/ \E a \in AdapterIds : TaskStart(a)
    \/ \E a \in AdapterIds : StreamChunk(a)
    \/ \E a \in AdapterIds : AiResponseSent(a)
    \/ \E a \in AdapterIds : ErrorNotified(a)
    \/ \E a \in AdapterIds : RetryAfterSleep(a)
    \/ \E a \in AdapterIds : TakeInput(a)
    \/ \E a \in AdapterIds : InputTimeout(a)
    \/ \E a \in AdapterIds : CooldownElapses(a)
    \/ \E w \in SocketIds, message \in UserInputs : HandleUserMessage(w, message)
    \/ \E w \in SocketIds : ClientCloses(w)

SpecLoop == InitLoop /\ [][NextLoop]_vars

(***************************************************************************)
(* The drive loop with the raises of its streams counted                   *)
(***************************************************************************)

\* the session of InitLoop, observed by someone who counts the raises
InitRetry ==
    /\ sessions = [s \in SessionIds |->
                      IF s = 1 THEN [exists |-> TRUE, is_active |-> TRUE, current_node |-> "None"]
                      ELSE NoSession]
    /\ conversations = [s \in SessionIds |-> <<>>]
    /\ active_connections = [s \in SessionIds |-> IF s = 1 THEN 1 ELSE Nobody]
    /\ session_adapters = [s \in SessionIds |-> IF s = 1 THEN 1 ELSE Nobody]
    /\ websockets = [w \in SocketIds |->
                        IF w = 1 THEN [NewSocket EXCEPT !.st = "serving", !.session_id = 1,
                                                        !.last_event = [event_type |-> "connection_established",
                                                                        data |-> ""]]
                        ELSE NewSocket]
    /\ adapters = [a \in AdapterIds |->
                      IF a = 1 THEN [NewAdapter(1) EXCEPT !.conversation_active = TRUE]
                      ELSE NoAdapter]
    /\ tasks = [a \in AdapterIds |-> IF a = 1 THEN [NoTask EXCEPT !.pc = "created"] ELSE NoTask]
    /\ threads = [a \in AdapterIds |-> NewThread]
    /\ seen = [a \in AdapterIds |-> [NothingSeen EXCEPT !.raises.counting = TRUE]]

\* the loop runs and the user replies; the client stays and no wait for
\* input times out
NextRetry ==
    \/ \E a \in AdapterIds : TaskStart(a)
    \/ \E a \in AdapterIds : StreamChunk(a)
    \/ \E a \in AdapterIds : AiResponseSent(a)
    \/ \E a \in AdapterIds : ErrorNotified(a)
    \/ \E a \in AdapterIds : RetryAfterSleep(a)
    \/ \E a \in AdapterIds : TakeInput(a)
    \/ \E w \in SocketIds, message \in UserInputs : HandleUserMessage(w, message)

SpecRetry == InitRetry /\ [][NextRetry]_vars


(***************************************************************************)
(* The graph on the whole KotoriState                                      *)
(***************************************************************************)

\* the longest message list a thread is followed to
MaxMessages == 9

\* the threads whose graph is stepped
GraphThreads == {1}

\* KotoriBot._setup_nodes
NodeNames ==
    {"greeting", "mode_selection_prompt", "conversation", "free_conversation", "retrieve_cards",
     "assessment", "mode_selection", "free_conversation_eval", "tools"}

\* the path list each conditional edge of KotoriBot._setup_edges declares
Destinations(node) ==
    CASE node = "greeting" -> {"mode_selection_prompt", "greeting", END}
      [] node = "mode_selection_prompt" -> {"mode_selection"}
      [] node = "mode_selection" -> {"retrieve_cards", "free_conversation"}
      [] node = "retrieve_cards" -> {"conversation", "free_conversation"}
      [] node = "conversation" -> {"assessment", "conversation", "mode_selection_prompt", "tools"}
      [] node = "free_conversation" -> {"free_conversation_eval", "tools"}
      [] node = "assessment" -> {"conversation", "free_conversation", "retrieve_cards"}
      [] node = "tools" -> {"conversation", "mode_selection", "free_conversation"}
      [] node = "free_conversation_eval" -> {"mode_selection_prompt", "free_conversation",
                                             "retrieve_cards"}

\* what state["calling_node"] can be handed to _route_after_tools as: the
\* initial "", or one of the names the function knows or the graph has
CallingNodeValues == NodeNames \cup {"", "card_answer"}

\* what retrieve_cards stores when find_cards_to_talk_about found a card: the
\* summary, cut to its first words and the id line of the card; texts are
\* sequences of characters, the empty text is <<>>
CardsResult ==
    <<"F", "o", "u", "n", "d", " ", "1", " ", "c", "a", "r", "d", "s", ":", " ",
      "I", "D", ":", " ", "1">>

\* get_init_kotori_state with the entry node pending; the adapter's own
\* initial state has no round_start_msg_idx, which every reader takes as 0
InitKotoriState ==
    [pending |-> "greeting", calling_node |-> "", resume |-> <<>>, status |-> "ready",
     next |-> "", messages |-> <<>>, round_start_msg_idx |-> 0, active_cards |-> <<>>]

\* a reset that starts the round one past the last message
ResetPastLastMessage(st) ==
    [st EXCEPT !.active_cards = <<>>, !.round_start_msg_idx = Len(st.messages) + 1]

\* a reset that keeps the active card
ResetKeepingCards(st) == [st EXCEPT !.round_start_msg_idx = Len(st.messages)]

\* a reset that clears next as it clears card_answer_next
ResetClearingNext(st) ==
    [st EXCEPT !.active_cards = <<>>, !.round_start_msg_idx = Len(st.messages), !.next = ""]

\* KotoriBot._reset_learning_states
ResetLearningStates(st) ==
    [st EXCEPT !.active_cards = <<>>, !.round_start_msg_idx = Len(st.messages)]

\* KotoriBot._do_card_assessment with _do_card_answer: when the round has
\* messages and a card is active, an answer that found the card id and a
\* mastery above 0 appends the ToolMessage of answer_card
DoCardAssessment(st, graded) ==
    IF Len(st.messages) - st.round_start_msg_idx > 0 /\ st.active_cards # <<>> /\ graded
    THEN [st EXCEPT !.messages = Append(@, "tool")]
    ELSE st

\* the state a node returns when it runs to its end with the chunk ch
RunNode(st, ch, graded) ==
    LET n == ch.node
        asked == [st EXCEPT !.messages = @ \o <<"ai", "human">>, !.next = ch.next]
    IN  CASE n \in {"greeting", "mode_selection_prompt"} -> asked
          [] n = "mode_selection" -> [ResetLearningStates(st) EXCEPT !.next = ch.next]
          [] n = "retrieve_cards" ->
                IF ch.next = "conversation"
                THEN [st EXCEPT !.active_cards = CardsResult, !.next = ch.next]
                ELSE [st EXCEPT !.next = ch.next]
          [] n \in LLMTextNodes ->
                IF ch.tool_calls
                THEN [st EXCEPT !.calling_node = n, !.messages = Append(@, "ai_tool_calls"),
                                !.next = "tools"]
                ELSE [asked EXCEPT !.calling_node = n]
          [] n = "assessment" ->
                IF ch.next = "conversation"
                THEN [st EXCEPT !.next = ch.next]
                ELSE IF ch.next = "free_conversation"
                THEN ResetLearningStates([DoCardAssessment(st, graded) EXCEPT !.next = ch.next])
                ELSE [ResetLearningStates(DoCardAssessment(st, graded)) EXCEPT !.next = ch.next]
          [] n = "free_conversation_eval" ->
                IF ch.next = "retrieve_cards"
                THEN [ResetLearningStates(st) EXCEPT !.next = ch.next]
                ELSE [st EXCEPT !.next = ch.next]
          [] n = "tools" -> [st EXCEPT !.messages = Append(@, "tool")]

\* the checkpoint after one step of the graph: a raise or an interrupt writes
\* nothing, a destination outside the node's path list is a KeyError
AfterChunk(st, ch, graded) ==
    IF ch.kind = "raise" THEN [st EXCEPT !.status = "raised"]
    ELSE IF ch.kind = "interrupt" THEN [st EXCEPT !.status = "interrupted"]
    ELSE IF ch.to \notin Destinations(ch.node) THEN [st EXCEPT !.status = "raised"]
    ELSE [RunNode(st, ch, graded) EXCEPT !.pending = ch.to, !.resume = <<>>, !.status = "ready"]

\* app.astream runs the pending node of the thread
GraphStep(a) ==
    /\ a \in GraphThreads
    /\ \E ch \in NodeChunks(threads[a]), graded \in BOOLEAN :
          LET st == AfterChunk(threads[a], ch, graded)
          IN  /\ Len(st.messages) <= MaxMessages
              /\ threads' = [threads EXCEPT ![a] = st]
    /\ UNCHANGED <<sessions, conversations, active_connections, session_adapters, websockets,
                   adapters, tasks, seen>>

\* Command(resume=user_input) for the interrupt the thread stopped at
GraphResume(a, user_input) ==
    /\ a \in GraphThreads
    /\ threads[a].status = "interrupted"
    /\ threads' = [threads EXCEPT ![a].resume = <<user_input>>, ![a].status = "ready"]
    /\ UNCHANGED <<sessions, conversations, active_connections, session_adapters, websockets,
                   adapters, tasks, seen>>

\* everything but the threads at rest
GraphRest ==
    /\ sessions = [s \in SessionIds |-> NoSession]
    /\ conversations = [s \in SessionIds |-> <<>>]
    /\ active_connections = [s \in SessionIds |-> Nobody]
    /\ session_adapters = [s \in SessionIds |-> Nobody]
    /\ websockets = [w \in SocketIds |-> NewSocket]
    /\ adapters = [a \in AdapterIds |-> NoAdapter]
    /\ tasks = [a \in AdapterIds |-> NoTask]
    /\ seen = [a \in AdapterIds |-> NothingSeen]

\* a compiled graph and a thread that has not run yet
InitGraph ==
    /\ GraphRest
    /\ threads = [a \in AdapterIds |-> InitKotoriState]

\* the graph runs, the user answers its interrupts
NextGraph ==
    \/ \E a \in AdapterIds : GraphStep(a)
    \/ \E a \in AdapterIds, user_input \in UserInputs : GraphResume(a, user_input)

SpecGraph == InitGraph /\ [][NextGraph]_vars

\* a thread about to run tools with any calling_node the router can be given
InitRoute ==
    /\ GraphRest
    /\ \E c \in CallingNodeValues :
          threads = [a \in AdapterIds |->
                        [InitKotoriState EXCEPT !.pending = "tools", !.calling_node = c,
                                                !.next = "tools",
                                                !.messages = <<"ai", "human", "ai", "human",
                                                               "ai_tool_calls">>,
                                                !.round_start_msg_idx = 4]]

SpecRoute == InitRoute /\ [][NextGraph]_vars

(***************************************************************************)
(* The conversation store on its own                                       *)
(***************************************************************************)

\* the longest history the store is followed to
MaxStored == 7

\* the sessions whose history is written
StoreSessions == {1}

\* Message.message_type
MessageTypes == {"user", "ai"}

\* the ids a caller can give a message: one of each stored message, and one
\* that no stored message has
CallerIds(conv) == Ids(conv) \cup {FreshId(conv)}

\* any(msg.id == message.id for msg in existing_messages)
IdStored(conv, message) == \E i \in 1..Len(conv) : conv[i].id = message.id

\* one of existing_messages[-5:] has the message's message_type and its
\* content.strip().lower()
SaidRecently(conv, message) ==
    \E i \in 1..Len(conv) :
        /\ i > Len(conv) - RecentWindow
        /\ conv[i].message_type = message.message_type
        /\ StoreNormal(conv[i].content) = StoreNormal(message.content)

\* what an observer of the last add_message call of a session noted: the
\* message when it was stored, how it stood to the history before the call,
\* and whether the call left the history as it was
NoCall ==
    [called |-> FALSE, message |-> <<>>, id_stored |-> FALSE, said_recently |-> FALSE,
     kept |-> FALSE]

\* ConversationManager.add_message called with any message
StoreAdd(sid, message) ==
    LET conv == conversations[sid]
        after == AddMessage(conv, message)
    IN  /\ Len(conv) < MaxStored
        /\ conversations' = [conversations EXCEPT ![sid] = after]
        /\ seen' = [seen EXCEPT ![sid] =
                       [called |-> TRUE, message |-> IF after = conv THEN <<>> ELSE message,
                        id_stored |-> IdStored(conv, message),
                        said_recently |-> SaidRecently(conv, message),
                        kept |-> after = conv]]
        /\ UNCHANGED <<sessions, active_connections, session_adapters, websockets, adapters,
                       tasks, threads>>

\* ConversationManager.clear_conversation
ClearConversation(sid) ==
    /\ conversations' = [conversations EXCEPT ![sid] = <<>>]
    /\ seen' = [seen EXCEPT ![sid] = NoCall]
    /\ UNCHANGED <<sessions, active_connections, session_adapters, websockets, adapters, tasks,
                   threads>>

\* a store without any history
InitStore ==
    /\ sessions = [s \in SessionIds |-> NoSession]
    /\ conversations = [s \in SessionIds |-> <<>>]
    /\ active_connections = [s \in SessionIds |-> Nobody]
    /\ session_adapters = [s \in SessionIds |-> Nobody]
    /\ websockets = [w \in SocketIds |-> NewSocket]
    /\ adapters = [a \in AdapterIds |-> NoAdapter]
    /\ tasks = [a \in AdapterIds |-> NoTask]
    /\ threads = [a \in AdapterIds |-> NewThread]
    /\ seen = [s \in SessionIds |-> NoCall]

NextStore ==
    \/ \E sid \in StoreSessions, type \in MessageTypes, content \in StoreTexts :
          \E id \in CallerIds(conversations[sid]) :
             StoreAdd(sid, [id |-> id, message_type |-> type, content |-> content])
    \/ \E sid \in StoreSessions : ClearConversation(sid)

SpecStore == InitStore /\ [][NextStore]_vars

(***************************************************************************)
(* The session manager and its maintenance sweep                           *)
(***************************************************************************)

\* the sessions the manager is followed with
MaxSwept == 2

\* the last instant of the clock
MaxClock == 3

\* the largest max_age_hours a sweep is called with
MaxAgeHours == 1

\* the instants of datetime.now() in an hour: an age is a fraction of hours
TicksPerHour == 2

SweptIds == 1..MaxSwept

\* a session id that uuid4 has not returned yet: no record, no lock
Unborn ==
    [exists |-> FALSE, is_active |-> FALSE, current_node |-> "None", last_activity |-> 0,
     lock |-> FALSE, used |-> FALSE]

\* the clock and what the caller of the last sweep was returned
NoSweep == [now |-> 0, returned |-> 0, sweeps |-> 0]

\* datetime.now() moves on
ClockTicks ==
    /\ seen.now < MaxClock
    /\ seen' = [seen EXCEPT !.now = @ + 1]
    /\ UNCHANGED <<sessions, conversations, active_connections, session_adapters, websockets,
                   adapters, tasks, threads>>

\* SessionManager.create_session: the record and its lock under a new id;
\* SessionState.last_activity defaults to datetime.now()
CreateSwept(sid) ==
    /\ ~sessions[sid].used
    /\ sessions' = [sessions EXCEPT ![sid] =
                       [exists |-> TRUE, is_active |-> TRUE, current_node |-> "None",
                        last_activity |-> seen.now, lock |-> TRUE, used |-> TRUE]]
    /\ UNCHANGED <<conversations, active_connections, session_adapters, websockets, adapters,
                   tasks, threads, seen>>

\* SessionManager.update_session_activity
UpdateSessionActivity(sid) ==
    /\ sessions[sid].exists
    /\ sessions' = [sessions EXCEPT ![sid].last_activity = seen.now]
    /\ UNCHANGED <<conversations, active_connections, session_adapters, websockets, adapters,
                   tasks, threads, seen>>

\* SessionManager.deactivate_session
DeactivateSession(sid) ==
    /\ sessions[sid].exists
    /\ sessions' = [sessions EXCEPT ![sid].is_active = FALSE]
    /\ UNCHANGED <<conversations, active_connections, session_adapters, websockets, adapters,
                   tasks, threads, seen>>

\* a sweep that takes a session at the age of the threshold as well
ToRemoveFromThreshold(ss, current_time, max_age_hours) ==
    {sid \in SweptIds :
        /\ ss[sid].exists /\ ~ss[sid].is_active
        /\ current_time - ss[sid].last_activity >= max_age_hours * TicksPerHour}

\* to_remove of cleanup_inactive_sessions: age_hours > max_age_hours, the age
\* being (current_time - last_activity) in hours
ToRemove(ss, current_time, max_age_hours) ==
    {sid \in SweptIds :
        /\ ss[sid].exists /\ ~ss[sid].is_active
        /\ current_time - ss[sid].last_activity > max_age_hours * TicksPerHour}

\* SessionManager.cleanup_inactive_sessions
CleanupInactiveSessions(max_age_hours) ==
    LET to_remove == ToRemove(sessions, seen.now, max_age_hours)
    IN  /\ sessions' = [sid \in SweptIds |->
                           IF sid \in to_remove
                           THEN [sessions[sid] EXCEPT !.exists = FALSE, !.lock = FALSE]
                           ELSE sessions[sid]]
        /\ seen' = [seen EXCEPT !.returned = Cardinality(to_remove), !.sweeps = (@ + 1) % 2]
        /\ UNCHANGED <<conversations, active_connections, session_adapters, websockets,
                       adapters, tasks, threads>>

\* a session manager without sessions
InitSweep ==
    /\ sessions = [sid \in SweptIds |-> Unborn]
    /\ conversations = [s \in SessionIds |-> <<>>]
    /\ active_connections = [s \in SessionIds |-> Nobody]
    /\ session_adapters = [s \in SessionIds |-> Nobody]
    /\ websockets = [w \in SocketIds |-> NewSocket]
    /\ adapters = [a \in AdapterIds |-> NoAdapter]
    /\ tasks = [a \in AdapterIds |-> NoTask]
    /\ threads = [a \in AdapterIds |-> NewThread]
    /\ seen = NoSweep

\* sessions come, are used and deactivated, time passes, the sweep is called
NextSweep ==
    \/ ClockTicks
    \/ \E sid \in SweptIds : CreateSwept(sid)
    \/ \E sid \in SweptIds : UpdateSessionActivity(sid)
    \/ \E sid \in SweptIds : DeactivateSession(sid)
    \/ \E max_age_hours \in 0..MaxAgeHours : CleanupInactiveSessions(max_age_hours)

SpecSweep == InitSweep /\ [][NextSweep]_vars

(***************************************************************************)
(* Concurrent create_session calls                                         *)
(***************************************************************************)

\* the create_session calls in flight
MaxCallers == 3

\* the values uuid4 can return
MaxUuids == 3

Callers == 1..MaxCallers

Uuids == 1..MaxUuids

\* no session under the id, and the id not in _creating_sessions
NoRecord == [exists |-> FALSE, lock |-> FALSE, creating |-> FALSE, owner |-> Nobody]

\* a create_session call that was not made yet; before holds the ids that
\* were sessions or being created when the call was made
NoCreate == [pc |-> "none", id |-> Nobody, before |-> {}]

\* the ids in self.sessions or in self._creating_sessions
TakenIds(ss) == {id \in Uuids : ss[id].exists \/ ss[id].creating}

\* a while loop that takes the first id drawn
AnyUuid(ss) == Uuids

\* the id the while loop of create_session ends with
AcceptedIds(ss) == Uuids \ TakenIds(ss)

\* create_session from its call to the try: _creation_lock is free whenever
\* a coroutine is scheduled, so the call takes it without waiting; an id is
\* drawn until it is neither a session nor being created, and is put into
\* _creating_sessions
CreateMarked(p, id) ==
    /\ tasks[p].pc = "none"
    /\ \A q \in Callers : tasks[q].pc # "creating"
    /\ id \in AcceptedIds(sessions)
    /\ sessions' = [sessions EXCEPT ![id].creating = TRUE]
    /\ tasks' = [tasks EXCEPT ![p] = [pc |-> "creating", id |-> id,
                                      before |-> TakenIds(sessions)]]
    /\ UNCHANGED <<conversations, active_connections, session_adapters, websockets, adapters,
                   threads, seen>>

\* the try and its finally: the record and its lock are stored and the id is
\* returned, or SessionState raises; either way the id leaves
\* _creating_sessions and _creation_lock is released
CreateReturned(p, built) ==
    /\ tasks[p].pc = "creating"
    /\ sessions' = [sessions EXCEPT ![tasks[p].id] =
                       IF built
                       THEN [exists |-> TRUE, lock |-> TRUE, creating |-> FALSE, owner |-> p]
                       ELSE [@ EXCEPT !.creating = FALSE]]
    /\ tasks' = [tasks EXCEPT ![p].pc = IF built THEN "returned" ELSE "raised"]
    /\ UNCHANGED <<conversations, active_connections, session_adapters, websockets, adapters,
                   threads, seen>>

\* a session manager without sessions and callers that have not called yet
InitCreate ==
    /\ sessions = [id \in Uuids |-> NoRecord]
    /\ conversations = [s \in SessionIds |-> <<>>]
    /\ active_connections = [s \in SessionIds |-> Nobody]
    /\ session_adapters = [s \in SessionIds |-> Nobody]
    /\ websockets = [w \in SocketIds |-> NewSocket]
    /\ adapters = [a \in AdapterIds |-> NoAdapter]
    /\ tasks = [p \in Callers |-> NoCreate]
    /\ threads = [a \in AdapterIds |-> NewThread]
    /\ seen = [a \in AdapterIds |-> NothingSeen]

NextCreate ==
    \/ \E p \in Callers, id \in Uuids : CreateMarked(p, id)
    \/ \E p \in Callers, built \in BOOLEAN : CreateReturned(p, built)

SpecCreate == InitCreate /\ [][NextCreate]_vars

(***************************************************************************)
(* The life of a session record                                            *)
(***************************************************************************)

\* sockets attach and detach while the management API closes sessions
NextLife ==
    \/ NextConn
    \/ \E sid \in SessionIds : DeactivateSession(sid)

SpecLife == InitConn /\ [][NextLife]_vars

(***************************************************************************)
(* Attached sockets, the management API and the maintenance sweep          *)
(***************************************************************************)

\* sessions are created, sockets attach and detach, DELETE and cleanup
\* deactivate, callbacks stamp the activity, time passes, the sweep is called
NextAttach ==
    \/ ClockTicks
    \/ \E sid \in SessionIds : CreateSwept(sid)
    \/ \E w \in SocketIds, sid \in SessionIds : ConnectBegin(w, sid)
    \/ \E w \in SocketIds : ConnectAccepted(w)
    \/ \E w \in SocketIds : ConnectRejected(w)
    \/ \E w \in SocketIds : ClientCloses(w)
    \/ \E sid \in SessionIds : UpdateSessionActivity(sid)
    \/ \E sid \in SessionIds : DeactivateSession(sid)
    \/ \E max_age_hours \in 0..MaxAgeHours : CleanupInactiveSessions(max_age_hours)

SpecAttach == InitSweep /\ [][NextAttach]_vars

(***************************************************************************)
(* retrieve_cards and the card query                                       *)
(***************************************************************************)

\* sub in s, for strings
Contains(s, sub) ==
    \E i \in 0..(Len(s) - Len(sub)) : SubSeq(s, i + 1, i + Len(sub)) = sub

\* what find_cards_to_talk_about returns, each text cut after its first
\* words: cards were found; no query found a card; the card details came back
\* empty; requests raised ConnectionError; requests raised Timeout; anything
\* else was raised
CardQueryResults ==
    [found |-> CardsResult,
     none |->
        <<"N", "o", " ", "c", "a", "r", "d", "s", " ", "f", "o", "u", "n", "d", " ", "i", "n",
        " ", "d", "e", "c", "k">>,
     details |->
        <<"E", "r", "r", "o", "r", ":", " ", "C", "o", "u", "l", "d", " ", "n", "o", "t", " ",
        "r", "e", "t", "r", "i", "e", "v", "e">>,
     connection |->
        <<"C", "o", "u", "l", "d", " ", "n", "o", "t", " ", "c", "o", "n", "n", "e", "c", "t",
        " ", "t", "o", " ", "A", "n", "k", "i", "C", "o", "n", "n", "e", "c", "t", ".">>,
     timeout |->
        <<"R", "e", "q", "u", "e", "s", "t", " ", "t", "o", " ", "A", "n", "k", "i", "C", "o",
        "n", "n", "e", "c", "t", " ", "t", "i", "m", "e", "d", " ", "o", "u", "t", ".">>,
     failed |->
        <<"E", "r", "r", "o", "r", " ", "f", "i", "n", "d", "i", "n", "g", " ", "c", "a", "r",
        "d", "s">>]

\* how a card query can end; "raised" is an exception out of ainvoke itself
CardQueryOutcomes == DOMAIN CardQueryResults \cup {"raised"}

\* "Error" in cards_result or "No cards found" in cards_result
RefusedCardsResult(cards_result) ==
    \/ Contains(cards_result, <<"E", "r", "r", "o", "r">>)
    \/ Contains(cards_result, <<"N", "o", " ", "c", "a", "r", "d", "s", " ", "f", "o", "u", "n", "d">>)

\* KotoriBot._retrieve_cards_node on a card query that ended with outcome
RetrieveCardsNode(st, outcome) ==
    IF outcome = "raised" THEN [st EXCEPT !.next = "free_conversation"]
    ELSE IF RefusedCardsResult(CardQueryResults[outcome])
    THEN [st EXCEPT !.next = "free_conversation"]
    ELSE [st EXCEPT !.next = "conversation", !.active_cards = CardQueryResults[outcome]]

\* the graph runs retrieve_cards and follows its conditional edge
RetrieveCards(a, outcome) ==
    /\ a \in GraphThreads
    /\ threads[a].pending = "retrieve_cards"
    /\ threads' = [threads EXCEPT ![a] =
                      [RetrieveCardsNode(@, outcome) EXCEPT
                          !.pending = RetrieveCardsNode(threads[a], outcome).next,
                          !.status = "ready"]]
    /\ UNCHANGED <<sessions, conversations, active_connections, session_adapters, websockets,
                   adapters, tasks, seen>>

\* the graph with the card query spelled out
NextCards ==
    \/ NextGraph
    \/ \E a \in AdapterIds, outcome \in CardQueryOutcomes : RetrieveCards(a, outcome)

SpecCards == InitGraph /\ [][NextCards]_vars

(***************************************************************************)
(* The assessment node and the grading of the active card                  *)
(***************************************************************************)

\* the leftmost place in s where prefix is followed by a digit: the index of
\* that digit, 0 when re.search finds nothing
DigitAfter(s, prefix) ==
    LET hits == {i \in (Len(prefix) + 1)..Len(s) :
                    /\ SubSeq(s, i - Len(prefix), i - 1) = prefix
                    /\ s[i] \in Range(Digits)}
    IN  IF hits = {} THEN 0 ELSE CHOOSE i \in hits : \A j \in hits : i <= j

\* the digits of s from index i on, as \d+ takes them
RECURSIVE DigitRun(_, _)
DigitRun(s, i) ==
    IF i > Len(s) \/ s[i] \notin Range(Digits) THEN <<>> ELSE <<s[i]>> \o DigitRun(s, i + 1)

\* int() of one digit
DigitValue(c) == (CHOOSE n \in 1..10 : Digits[n] = c) - 1

\* card_id of _do_card_answer: group 1 of re.search(r'ID: (\d+)', card), "" without a match
CardId(card) ==
    LET i == DigitAfter(card, <<"I", "D", ":", " ">>)
    IN  IF i = 0 THEN <<>> ELSE DigitRun(card, i)

\* a mastery that is taken only when the digit is one of 1..5 and no digit follows it
OverallMasteryInRange(assessment) ==
    LET i == DigitAfter(assessment, <<"O", "V", "E", "R", "A", "L", "L", "_", "M", "A", "S", "T", "E", "R", "Y", ":", " ">>)
    IN  IF i = 0 \/ Len(DigitRun(assessment, i)) # 1 \/ DigitValue(assessment[i]) \notin 1..5
        THEN 0
        ELSE IF DigitValue(assessment[i]) >= 4 THEN 4 ELSE DigitValue(assessment[i])

\* overall_mastery of _do_card_answer: group 1 of
\* re.search(r'OVERALL_MASTERY: (\d)', assessment) as an int, 4 when it is 4
\* or more, 0 without a match
OverallMastery(assessment) ==
    LET i == DigitAfter(assessment, <<"O", "V", "E", "R", "A", "L", "L", "_", "M", "A", "S", "T", "E", "R", "Y", ":", " ">>)
    IN  IF i = 0 THEN 0
        ELSE IF DigitValue(assessment[i]) >= 4 THEN 4 ELSE DigitValue(assessment[i])

\* what the assessing LLM can answer, cut to the line of the overall score:
\* scores 3, 5, 0, 7 and 10, and an answer without the line
MasteryLine(digits) == <<"O", "V", "E", "R", "A", "L", "L", "_", "M", "A", "S", "T", "E", "R", "Y", ":", " ">> \o digits

Assessments ==
    {MasteryLine(<<"3">>), MasteryLine(<<"5">>), MasteryLine(<<"0">>), MasteryLine(<<"7">>),
     MasteryLine(<<"1", "0">>), <<"M", "A", "S", "T", "E", "R", "Y", ":", " ", "h", "i", "g", "h">>}

\* an answer that calls answer_card before relearn_cards
DoCardAnswerAnswerFirst(st, assessment, card) ==
    IF card # <<>> /\ assessment # <<>> /\ CardId(card) # <<>> /\ OverallMastery(assessment) > 0
    THEN [st EXCEPT !.log = @ \o <<[tool |-> "answer_card", card_id |-> CardId(card),
                                    ease |-> OverallMastery(assessment)],
                                   [tool |-> "relearn_cards", card_id |-> CardId(card), ease |-> 0],
                                   [tool |-> "tool_message", card_id |-> CardId(card),
                                    ease |-> OverallMastery(assessment)]>>,
                    !.messages = Append(@, "tool")]
    ELSE st

\* KotoriBot._do_card_answer: relearn_cards, answer_card, the ToolMessage; the
\* tools return a text whatever the service answers
DoCardAnswer(st, assessment, card) ==
    IF card # <<>> /\ assessment # <<>> /\ CardId(card) # <<>> /\ OverallMastery(assessment) > 0
    THEN [st EXCEPT !.log = @ \o <<[tool |-> "relearn_cards", card_id |-> CardId(card), ease |-> 0],
                                   [tool |-> "answer_card", card_id |-> CardId(card),
                                    ease |-> OverallMastery(assessment)],
                                   [tool |-> "tool_message", card_id |-> CardId(card),
                                    ease |-> OverallMastery(assessment)]>>,
                    !.messages = Append(@, "tool")]
    ELSE st

\* the entry the log gets when the assessment goes into assessment_history,
\* and when the learning state is reset
Noted(what) == [tool |-> what, card_id |-> <<>>, ease |-> 0]

\* KotoriBot._do_card_assessment with the assessing LLM answering assessment:
\* assessment_history.append raises when the history is the str the
\* adapter's initial state holds
CardAssessment(st, assessment) ==
    IF Len(st.messages) - st.round_start_msg_idx > 0 /\ st.active_cards # <<>>
    THEN IF ~st.assessment_history.is_list
         THEN [st EXCEPT !.status = "raised"]
         ELSE DoCardAnswer([st EXCEPT !.assessment_history.items = Append(@, assessment),
                                      !.log = Append(@, Noted("assessment_history"))],
                           assessment, st.active_cards)
    ELSE st

\* KotoriBot._assessment_node with the routing LLM answering topic_decision
AssessmentNode(st, topic_decision, assessment) ==
    LET started == [st EXCEPT !.log = <<>>, !.status = "ready"]
        assessed == IF topic_decision \in {"1", "2"} /\ Len(st.messages) - st.round_start_msg_idx > 0
                    THEN CardAssessment(started, assessment)
                    ELSE started
        reset == [ResetLearningStates(assessed) EXCEPT !.log = Append(@, Noted("reset"))]
    IN  IF assessed.status = "raised" THEN [st EXCEPT !.status = "raised"]
        ELSE IF topic_decision = "1" THEN [reset EXCEPT !.next = "free_conversation"]
        ELSE IF topic_decision = "2" THEN [reset EXCEPT !.next = "retrieve_cards"]
        ELSE [assessed EXCEPT !.next = "conversation"]

\* the graph runs assessment and follows its conditional edge
AssessmentStep(a, topic_decision, assessment) ==
    LET st == AssessmentNode(threads[a], topic_decision, assessment)
    IN  /\ a \in GraphThreads
        /\ threads[a].pending = "assessment"
        /\ Len(st.messages) <= MaxMessages
        /\ threads' = [threads EXCEPT ![a] =
                          IF st.status = "raised" THEN st ELSE [st EXCEPT !.pending = st.next]]
        /\ UNCHANGED <<sessions, conversations, active_connections, session_adapters,
                       websockets, adapters, tasks, seen>>

\* the other nodes of the graph
OtherNodeStep(a) ==
    /\ threads[a].pending \notin {"assessment", "retrieve_cards"}
    /\ GraphStep(a)

\* a thread started by run_conversation (assessment_history a list) or by
\* the adapter's start_conversation (assessment_history the str "")
InitGrade ==
    /\ GraphRest
    /\ \E is_list \in BOOLEAN :
          threads = [a \in AdapterIds |->
                        InitKotoriState @@ [assessment_history |-> [is_list |-> is_list, items |-> <<>>],
                                            log |-> <<>>]]

NextGrade ==
    \/ \E a \in AdapterIds : OtherNodeStep(a)
    \/ \E a \in AdapterIds, user_input \in UserInputs : GraphResume(a, user_input)
    \/ \E a \in AdapterIds, outcome \in CardQueryOutcomes : RetrieveCards(a, outcome)
    \/ \E a \in AdapterIds, topic_decision \in {"1", "2", "3"}, assessment \in Assessments :
          AssessmentStep(a, topic_decision, assessment)

SpecGrade == InitGrade /\ [][NextGrade]_vars

(***************************************************************************)
(* The evaluation of a free conversation                                   *)
(***************************************************************************)

\* what the routing LLM of free_conversation_eval answers
TopicDecisions == {<<"1">>, <<"2">>, <<"R", "o", "u", "t", "e", " ", "1">>}

\* what the assessing LLM answers: no assessment, in two spellings, or a
\* feedback
AssessorOutputs ==
    {<<"N", "O", "_", "A", "S", "S", "E", "S", "S", "M", "E", "N", "T">>,
     <<"n", "o", "_", "a", "s", "s", "e", "s", "s", "m", "e", "n", "t", ".">>,
     <<"S", "a", "y", " ", "I", " ", "w", "e", "n", "t">>}

\* the assessor's answer asks for no assessment
NoAssessment(assessment) ==
    Contains(Lower(assessment),
             <<"n", "o", "_", "a", "s", "s", "e", "s", "s", "m", "e", "n", "t">>)

\* KotoriBot._perform_free_conversation_assessment; status "none" stands for
\* the None of its bare return, "raised" for the AttributeError of append on
\* the str the adapter's initial state holds
PerformFreeConversationAssessment(st, assessment) ==
    IF st.messages = <<>> \/ st.round_start_msg_idx >= Len(st.messages) THEN st
    ELSE IF NoAssessment(assessment) THEN [st EXCEPT !.status = "none"]
    ELSE IF ~st.assessment_history.is_list THEN [st EXCEPT !.status = "raised"]
    ELSE [st EXCEPT !.assessment_history.items = Append(@, assessment)]

\* KotoriBot._free_conversation_eval_node: state["next"] = ... on the None
\* the assessment returned is a TypeError
FreeConversationEvalNode(st, topic_decision, assessment) ==
    LET started == [st EXCEPT !.status = "ready"]
        assessed == PerformFreeConversationAssessment(started, assessment)
    IN  IF ~\E i \in 1..Len(st.messages) : st.messages[i] = "human"
        THEN [started EXCEPT !.next = "mode_selection_prompt"]
        ELSE IF Contains(topic_decision, <<"1">>)
        THEN [ResetLearningStates(started) EXCEPT !.next = "retrieve_cards"]
        ELSE IF assessed.status \in {"none", "raised"} THEN [st EXCEPT !.status = "raised"]
        ELSE [assessed EXCEPT !.next = "free_conversation"]

\* the answers of the two LLMs in the last free_conversation_eval step
NoEval == [topic_decision |-> <<>>, assessment |-> <<>>]

\* the graph runs free_conversation_eval and follows its conditional edge
FreeConversationEvalStep(a, topic_decision, assessment) ==
    LET st == FreeConversationEvalNode(threads[a], topic_decision, assessment)
        done == IF st.status = "raised" THEN st ELSE [st EXCEPT !.pending = st.next]
    IN  /\ a \in GraphThreads
        /\ threads[a].pending = "free_conversation_eval"
        /\ threads' = [threads EXCEPT ![a] =
                          [done EXCEPT !.eval = [topic_decision |-> topic_decision,
                                                 assessment |-> assessment]]]
        /\ UNCHANGED <<sessions, conversations, active_connections, session_adapters,
                       websockets, adapters, tasks, seen>>

\* the nodes before and after the evaluation
AroundEvalStep(a) ==
    /\ threads[a].pending # "free_conversation_eval"
    /\ GraphStep(a)

InitEval ==
    /\ GraphRest
    /\ \E is_list \in BOOLEAN :
          threads = [a \in AdapterIds |->
                        InitKotoriState @@ [assessment_history |-> [is_list |-> is_list, items |-> <<>>],
                                            log |-> <<>>, eval |-> NoEval]]

NextEval ==
    \/ \E a \in AdapterIds : AroundEvalStep(a)
    \/ \E a \in AdapterIds, user_input \in UserInputs : GraphResume(a, user_input)
    \/ \E a \in AdapterIds, topic_decision \in TopicDecisions, assessment \in AssessorOutputs :
          FreeConversationEvalStep(a, topic_decision, assessment)

SpecEval == InitEval /\ [][NextEval]_vars


(***************************************************************************)
(* The flashcard tools and the answers of the AnkiConnect service          *)
(***************************************************************************)

\* the "error" field of an answer of the service: None, or a message
NoError == <<>>

ServiceError == <<"c", "o", "l", "l", "e", "c", "t", "i", "o", "n", " ", "i", "s", " ", "n", "o", "t", " ", "a", "v", "a", "i", "l", "a", "b", "l", "e">>

\* response.json() of one request: the result is empty or holds something
ServiceReplies ==
    {[error |-> e, result |-> r] : e \in {NoError, ServiceError}, r \in {"empty", "some"}}

\* the tools the LLM of the conversation nodes is bound to
BoundTools == {"add_anki_note", "check_anki_connection"}

\* add_anki_note on the answer of addNote
AddAnkiNote(reply) ==
    IF reply.error # NoError
    THEN <<"E", "r", "r", "o", "r", " ", "a", "d", "d", "i", "n", "g", " ", "n", "o", "t", "e", " ", "t", "o", " ", "A", "n", "k", "i", ":", " ">> \o reply.error
    ELSE <<"S", "u", "c", "c", "e", "s", "s", "f", "u", "l", "l", "y", " ", "a", "d", "d", "e", "d", " ", "n", "o", "t", "e">>

\* check_anki_connection on the answer of version
CheckAnkiConnection(reply) ==
    IF reply.error # NoError
    THEN <<"A", "n", "k", "i", "C", "o", "n", "n", "e", "c", "t", " ", "e", "r", "r", "o", "r", ":", " ">> \o reply.error
    ELSE <<"A", "n", "k", "i", "C", "o", "n", "n", "e", "c", "t", " ", "i", "s", " ", "w", "o", "r", "k", "i", "n", "g", "!">>

\* answer_card on the answer of answerCards
AnswerCard(reply) ==
    IF reply.error # NoError
    THEN <<"E", "r", "r", "o", "r", " ", "a", "n", "s", "w", "e", "r", "i", "n", "g", " ", "c", "a", "r", "d", ":", " ">> \o reply.error
    ELSE IF reply.result = "some" THEN <<"S", "u", "c", "c", "e", "s", "s", "f", "u", "l", "l", "y", " ", "a", "n", "s", "w", "e", "r", "e", "d", " ", "c", "a", "r", "d">>
    ELSE <<"F", "a", "i", "l", "e", "d", " ", "t", "o", " ", "a", "n", "s", "w", "e", "r", " ", "c", "a", "r", "d">>

\* _find_cards_by_query and _get_cards_info on one answer: the list the
\* service found, [] when the answer has an error
FoundByQuery(reply) == IF reply.error # NoError THEN "empty" ELSE reply.result

\* the categories of search_queries, in the order of the list
SearchQueries == <<"due", "learning", "review", "any">>

\* find_cards_to_talk_about without the break: every query is made
QueriesMadeNoBreak(replies, i) == Len(replies)

\* the queries find_cards_to_talk_about makes before it stops at the first
\* that finds cards: due, learning, review, any
RECURSIVE QueriesMade(_, _)
QueriesMade(replies, i) ==
    IF i > Len(replies) THEN i - 1
    ELSE IF FoundByQuery(replies[i]) = "some" THEN i
    ELSE QueriesMade(replies, i + 1)

\* find_cards_to_talk_about on the answers of its findCards queries and of
\* cardsInfo
FindCardsToTalkAbout(replies, info) ==
    LET made == QueriesMade(replies, 1)
    IN  IF FoundByQuery(replies[made]) = "empty" THEN CardQueryResults.none
        ELSE IF FoundByQuery(info) = "empty" THEN CardQueryResults.details
        ELSE CardQueryResults.found

\* selected_category when the loop over search_queries is left
SelectedCategory(replies) ==
    LET made == QueriesMade(replies, 1)
    IN  IF FoundByQuery(replies[made]) = "some" THEN SearchQueries[made] ELSE "None"

\* the errors the service answered during one find_cards_to_talk_about
FindCardsErrors(replies, info) ==
    LET made == QueriesMade(replies, 1)
    IN  ({replies[i].error : i \in 1..made}
            \cup (IF FoundByQuery(replies[made]) = "some" THEN {info.error} ELSE {})) \ {NoError}

\* the last flashcard tool call of a thread: the errors the service
\* answered, what the tool returned, whether the tool raised, and whether
\* the graph step that made the call went on
\* of a find_cards_to_talk_about call also: what each category holds, the
\* categories queried in order, the category selected, and what cardsInfo
\* gave
NoToolCall ==
    [tool |-> "none", errors |-> {}, returned |-> <<>>, raised |-> FALSE, continued |-> TRUE,
     holds |-> <<>>, queries |-> <<>>, category |-> "None", details |-> "empty"]

ToolCall(tool, errors, returned, st) ==
    [NoToolCall EXCEPT !.tool = tool, !.errors = errors \ {NoError}, !.returned = returned,
                       !.continued = st.status # "raised"]

\* the tools node runs the call the LLM of a conversation node asked for:
\* add_anki_note or check_anki_connection
ToolsNodeCalls(a, tool, reply) ==
    /\ a \in GraphThreads
    /\ threads[a].pending = "tools"
    /\ tool \in BoundTools
    /\ \E ch \in NodeChunks(threads[a]) :
          LET st == AfterChunk(threads[a], ch, FALSE)
              returned == IF tool = "add_anki_note" THEN AddAnkiNote(reply)
                          ELSE CheckAnkiConnection(reply)
          IN  /\ Len(st.messages) <= MaxMessages
              /\ threads' = [threads EXCEPT ![a] =
                                [st EXCEPT !.tool_call = ToolCall(tool, {reply.error}, returned, st)]]
    /\ UNCHANGED <<sessions, conversations, active_connections, session_adapters, websockets,
                   adapters, tasks, seen>>

\* retrieve_cards calls find_cards_to_talk_about
RetrieveCardsCalls(a, replies, info) ==
    LET cards_result == FindCardsToTalkAbout(replies, info)
        st == IF RefusedCardsResult(cards_result)
              THEN [threads[a] EXCEPT !.next = "free_conversation", !.pending = "free_conversation",
                                      !.status = "ready"]
              ELSE [threads[a] EXCEPT !.next = "conversation", !.pending = "conversation",
                                      !.active_cards = cards_result, !.status = "ready"]
    IN  /\ a \in GraphThreads
        /\ threads[a].pending = "retrieve_cards"
        /\ threads' = [threads EXCEPT ![a] =
                          [st EXCEPT !.tool_call =
                              [ToolCall("find_cards_to_talk_about",
                                        FindCardsErrors(replies, info), cards_result, st)
                               EXCEPT !.holds = [i \in 1..4 |-> FoundByQuery(replies[i])],
                                      !.queries = SubSeq(SearchQueries, 1, QueriesMade(replies, 1)),
                                      !.category = SelectedCategory(replies),
                                      !.details = FoundByQuery(info)]]]
        /\ UNCHANGED <<sessions, conversations, active_connections, session_adapters,
                       websockets, adapters, tasks, seen>>

\* assessment calls answer_card when it grades the card
AssessmentCalls(a, topic_decision, assessment, reply) ==
    LET st == AssessmentNode(threads[a], topic_decision, assessment)
        graded == \E i \in 1..Len(st.log) : st.log[i].tool = "answer_card"
        done == IF st.status = "raised" THEN st ELSE [st EXCEPT !.pending = st.next]
    IN  /\ a \in GraphThreads
        /\ threads[a].pending = "assessment"
        /\ Len(st.messages) <= MaxMessages
        /\ threads' = [threads EXCEPT ![a] =
                          IF graded
                          THEN [done EXCEPT !.tool_call = ToolCall("answer_card", {reply.error},
                                                                   AnswerCard(reply), done)]
                          ELSE done]
        /\ UNCHANGED <<sessions, conversations, active_connections, session_adapters,
                       websockets, adapters, tasks, seen>>

\* the nodes that call no flashcard tool
QuietNodeStep(a) ==
    /\ threads[a].pending \notin {"assessment", "retrieve_cards", "tools"}
    /\ GraphStep(a)

InitTools ==
    /\ GraphRest
    /\ threads = [a \in AdapterIds |->
                     InitKotoriState @@ [assessment_history |-> [is_list |-> TRUE, items |-> <<>>],
                                         log |-> <<>>, tool_call |-> NoToolCall]]

NextTools ==
    \/ \E a \in AdapterIds : QuietNodeStep(a)
    \/ \E a \in AdapterIds, user_input \in UserInputs : GraphResume(a, user_input)
    \/ \E a \in AdapterIds, tool \in BoundTools, reply \in ServiceReplies :
          ToolsNodeCalls(a, tool, reply)
    \/ \E a \in AdapterIds, replies \in [1..4 -> ServiceReplies], info \in ServiceReplies :
          RetrieveCardsCalls(a, replies, info)
    \/ \E a \in AdapterIds, topic_decision \in {"1", "2", "3"}, reply \in ServiceReplies :
          AssessmentCalls(a, topic_decision, MasteryLine(<<"3">>), reply)

SpecTools == InitTools /\ [][NextTools]_vars

(***************************************************************************)
(* The interactive nodes: what interrupt() showed and what is appended     *)
(***************************************************************************)

\* the messages an interactive node appends when it runs to its end on the
\* resume value user_input: the prompt nodes append AIMessage(prompt), the
\* conversation nodes the response of the LLM call this run made; then
\* HumanMessage(user_input)
AppendedBy(ch, response, user_input) ==
    IF ch.kind # "update" \/ ch.node \notin InteractiveNodes THEN <<>>
    ELSE IF ch.tool_calls THEN <<[kind |-> "ai_tool_calls", content |-> <<>>]>>
    ELSE <<[kind |-> "ai", content |-> response], [kind |-> "human", content |-> user_input]>>

\* one step of the graph, with the value the client was shown at the last
\* interrupt and the messages the step appended; a node that is resumed runs
\* again from its first line, so a conversation node calls the LLM again
TalkStep(a) ==
    /\ a \in GraphThreads
    /\ \E ch \in NodeChunks(threads[a]), graded \in BOOLEAN :
          \E response \in InterruptValues(ch.node) :
             LET st == AfterChunk(threads[a], ch, graded)
                 user_input == IF threads[a].resume = <<>> THEN <<>> ELSE threads[a].resume[1]
             IN  /\ Len(st.messages) <= MaxMessages
                 /\ threads' = [threads EXCEPT ![a] =
                                   [st EXCEPT !.shown = IF ch.kind = "interrupt" THEN ch.value ELSE @,
                                              !.appended =
                                                  IF st.status = "raised" THEN <<>>
                                                  ELSE AppendedBy(ch, response, user_input)]]
    /\ UNCHANGED <<sessions, conversations, active_connections, session_adapters, websockets,
                   adapters, tasks, seen>>

InitTalk ==
    /\ GraphRest
    /\ threads = [a \in AdapterIds |-> InitKotoriState @@ [shown |-> <<>>, appended |-> <<>>]]

NextTalk ==
    \/ \E a \in AdapterIds : TalkStep(a)
    \/ \E a \in AdapterIds, user_input \in UserInputs : GraphResume(a, user_input)

SpecTalk == InitTalk /\ [][NextTalk]_vars

(***************************************************************************)
(* The duplicate filter of _handle_interrupt on its own                    *)
(***************************************************************************)

FilterAdapters == {1}

\* what an observer saw of the last _handle_interrupt: its content, the
\* adapter it ran on, and whether the ai_response callback was invoked
NoInterrupt == [handled |-> FALSE, content |-> <<>>, before |-> NoAdapter, accepted |-> FALSE]

\* _handle_interrupt runs on an interrupt with content c
InterruptHandled(a, c) ==
    /\ a \in FilterAdapters
    /\ \E r \in HandleInterrupt(adapters[a], c) :
          /\ adapters' = [adapters EXCEPT ![a] = r.ad]
          /\ seen' = [seen EXCEPT ![a] = [handled |-> TRUE, content |-> c, before |-> adapters[a],
                                          accepted |-> r.accepted]]
    /\ UNCHANGED <<connVars, conversations, tasks, threads>>

\* send_user_message puts the reply in the queue and the loop takes it
ReplyTaken(a) ==
    /\ a \in FilterAdapters
    /\ adapters[a].waiting_for_input
    /\ adapters' = [adapters EXCEPT ![a].waiting_for_input = FALSE]
    /\ UNCHANGED <<connVars, conversations, tasks, threads, seen>>

\* an adapter whose conversation has started, before its first interrupt
InitFilter ==
    /\ sessions = [s \in SessionIds |-> NoSession]
    /\ conversations = [s \in SessionIds |-> <<>>]
    /\ active_connections = [s \in SessionIds |-> Nobody]
    /\ session_adapters = [s \in SessionIds |-> Nobody]
    /\ websockets = [w \in SocketIds |-> NewSocket]
    /\ adapters = [a \in AdapterIds |->
                      IF a \in FilterAdapters
                      THEN [NewAdapter(1) EXCEPT !.conversation_active = TRUE]
                      ELSE NoAdapter]
    /\ tasks = [a \in AdapterIds |-> NoTask]
    /\ threads = [a \in AdapterIds |-> NewThread]
    /\ seen = [a \in AdapterIds |-> NoInterrupt]

NextFilter ==
    \/ \E a \in AdapterIds, c \in Contents : InterruptHandled(a, c)
    \/ \E a \in AdapterIds : ReplyTaken(a)
    \/ \E a \in FilterAdapters : CooldownElapses(a)

SpecFilter == InitFilter /\ [][NextFilter]_vars









(***************************************************************************)
(* Properties                                                              *)
(***************************************************************************)

\* the step in which the duplicate filter accepts an interrupt: the
\* ai_response callback is entered
Accepts(a) == tasks[a].pc # "ai_response" /\ tasks'[a].pc = "ai_response"

\* C1: between two accepted interrupts of an adapter the drive loop consumes
\* exactly one resume: whenever an interrupt is accepted after an earlier
\* one, one reply has been taken from the queue since that earlier one.
C1_OneResumePerAcceptedInterrupt ==
    [][\A a \in AdapterIds :
          (Accepts(a) /\ adapters[a].last_interrupt_content # <<>>) => seen[a].resumes = 1]_vars

\* C2: an interrupt value the loop has observed twice has been pushed to the
\* socket as ai_response exactly once.
C2_RepeatedInterruptPushedOnce ==
    \A a \in AdapterIds : \A c \in Contents :
        (seen[a].observed[c] >= 2 /\ tasks[a].pc # "ai_response") => seen[a].pushed[c] = 1

\* C3: waiting_for_input turns from false to true only in the step that
\* accepts an interrupt and enters the ai_response callback.
C3_WaitingOnlyWhenAccepted ==
    [][\A a \in AdapterIds :
          (~adapters[a].waiting_for_input /\ adapters'[a].waiting_for_input) => Accepts(a)]_vars

\* C4: a user_message frame handled while waiting_for_input is false changes
\* neither the adapter (nothing enqueued) nor the conversation history nor
\* the loop, and the reply to the socket is an error event.
C4_RejectedSendChangesNothing ==
    [][\A w \in SocketIds : \A message \in UserInputs :
          (/\ HandleUserMessage(w, message)
           /\ ~adapters[session_adapters[websockets[w].session_id]].waiting_for_input)
          => /\ adapters' = adapters
             /\ conversations' = conversations
             /\ tasks' = tasks /\ threads' = threads
             /\ websockets'[w].last_event =
                   [event_type |-> "error", data |-> "Failed to send message"]]_vars

\* C4, reached: a socket whose last event is the rejection of a send
C4_Witness ==
    \E w \in SocketIds :
        /\ websockets[w].last_event = [event_type |-> "error", data |-> "Failed to send message"]
        /\ ~adapters[1].waiting_for_input
        /\ adapters[1].input_queue = <<>>

\* C5: the input queue of an adapter never holds more than one reply.
C5_QueueDepthOne == \A a \in AdapterIds : Len(adapters[a].input_queue) <= 1

\* C10: after stop_conversation the loop handles at most the chunk of the
\* node step in progress.
C10_StopsAtNextNodeBoundary == \A a \in AdapterIds : seen[a].after_stop <= 1

\* C11: the conversation_end callback with reason timeout is invoked only by
\* a loop that awaits a reply with none in the queue, at most once per
\* adapter; in that step the conversation turns inactive, the task returns
\* and the socket registered for the session is sent conversation_end with
\* reason timeout.
C11_TimeoutEndsConversationOnce ==
    [][\A a \in AdapterIds :
          seen'[a].timeouts # seen[a].timeouts =>
              /\ seen[a].timeouts = 0
              /\ tasks[a].pc = "input" /\ adapters[a].input_queue = <<>>
              /\ ~adapters'[a].conversation_active
              /\ tasks'[a].pc = "done"
              /\ LET w == active_connections[adapters[a].session_id] IN
                 w # Nobody =>
                    websockets'[w].last_event =
                        [event_type |-> "conversation_end", data |-> "timeout"]]_vars

\* C11, reached: a loop that timed out, with its socket told so
C11_Witness ==
    \E a \in AdapterIds : \E w \in SocketIds :
        /\ seen[a].timeouts = 1
        /\ tasks[a].pc = "done"
        /\ ~adapters[a].conversation_active
        /\ websockets[w].st = "serving"
        /\ websockets[w].last_event = [event_type |-> "conversation_end", data |-> "timeout"]

\* C12: a step in which the loop handles the update of a node whose
\* post-state route (_route_next on the state the chunk carries) is the
\* terminal marker ends the conversation: the conversation turns inactive,
\* the task returns and the registered socket is sent conversation_end.
C12_TerminalRouteEndsConversation ==
    [][\A a \in AdapterIds : \A ch \in NodeChunks(threads[a]) :
          (/\ tasks[a].pc = "stream"
           /\ ch.kind = "update" /\ RouteNext(ch) = END
           /\ OnUpdate(a, ch))
          => /\ tasks'[a].pc = "done"
             /\ ~adapters'[a].conversation_active
             /\ LET w == active_connections[adapters[a].session_id] IN
                w # Nobody => websockets'[w].last_event.event_type = "conversation_end"]_vars

\* the sockets the server has accepted for a session and still serves
Attached(sid) == {w \in SocketIds : websockets[w].session_id = sid /\ websockets[w].st = "serving"}

\* C6: a session has at most one accepted socket at any instant, whatever
\* the interleaving of attaches and detaches.
C6_OneChannelPerSession == \A sid \in SessionIds : Cardinality(Attached(sid)) <= 1

\* the adapters built for a session, past and present
AdaptersOf(sid) == {a \in AdapterIds : adapters[a].created /\ adapters[a].session_id = sid}

\* the session's sockets came one after the other, each when the one before
\* was closed, and one is attached now
Settled(sid) ==
    /\ Cardinality(Attached(sid)) = 1
    /\ \A w \in SocketIds :
          websockets[w].session_id = sid =>
              websockets[w].alone /\ websockets[w].st \in {"serving", "closed"}

\* the socket was sent the greeting, closed, and the other socket then came
\* for the same session and is attached
Reattached(w1, w2) ==
    /\ w1 # w2
    /\ websockets[w1].session_id # Nobody
    /\ websockets[w2].session_id = websockets[w1].session_id
    /\ Settled(websockets[w1].session_id)
    /\ websockets[w1].st = "closed"
    /\ websockets[w1].last_event.event_type = "ai_response"
    /\ websockets[w2].st = "serving"

\* C7: a socket that reattaches to a session, after the socket before it was
\* sent the greeting and closed, is sent no ai_response without a user
\* message; the thread of its adapter is not at the greeting again.
C7_NoSecondGreeting ==
    \A w1, w2 \in SocketIds :
        Reattached(w1, w2) => websockets[w2].last_event.event_type # "ai_response"

\* the conversation tasks of a session that have not returned, but for those
\* stopped before their first step, which return when they are first scheduled
LiveTasks(sid) ==
    {a \in AdaptersOf(sid) :
        /\ tasks[a].pc \notin {"none", "done"}
        /\ ~(tasks[a].pc = "created" /\ ~adapters[a].conversation_active)}

\* C8: a session whose sockets came one after the other, one of them attached
\* now, never has two drive-loop tasks.
C8_OneTaskPerSession ==
    \A sid \in SessionIds : Settled(sid) => Cardinality(LiveTasks(sid)) <= 1

\* the sockets that presented an id no session was created with
Unknown(w) == websockets[w].session_id # Nobody /\ ~sessions[websockets[w].session_id].exists

\* C9 as stated: a socket that presented an id of no session is closed with
\* the reason "Session not found".
C9_ClosedAsNotFound ==
    \A w \in SocketIds :
        (Unknown(w) /\ websockets[w].st = "closed") => websockets[w].closed_with = "Session not found"

C14_RoundStartWithinMessages ==
    /\ [](\A a \in GraphThreads : threads[a].round_start_msg_idx <= Len(threads[a].messages))
    /\ [][\A a \in GraphThreads :
             /\ threads'[a].round_start_msg_idx >= threads[a].round_start_msg_idx
             /\ \/ threads'[a].round_start_msg_idx = threads[a].round_start_msg_idx
                \/ threads'[a].round_start_msg_idx = Len(threads'[a].messages)]_vars

\* C14, reached: a round that was started by a reset after the first messages
\* and has had messages since
C14_Witness ==
    \E a \in GraphThreads :
        /\ threads[a].round_start_msg_idx > 0
        /\ threads[a].round_start_msg_idx < Len(threads[a].messages)

\* C15: active_cards is empty whenever greeting, mode_selection_prompt,
\* free_conversation or free_conversation_eval is the node being executed,
\* and every step that resets the learning state (the round start moves)
\* leaves it empty.
C15_ActiveCardsOnlyWhenGuided ==
    /\ [](\A a \in GraphThreads :
             threads[a].pending \in {"greeting", "mode_selection_prompt", "free_conversation",
                                     "free_conversation_eval"}
             => threads[a].active_cards = <<>>)
    /\ [][\A a \in GraphThreads :
             threads[a].pending \in {"mode_selection", "assessment", "free_conversation_eval"}
             /\ threads'[a].pending \in {"retrieve_cards", "free_conversation"}
             /\ ~(threads[a].pending = "free_conversation_eval"
                  /\ threads'[a].pending = "free_conversation")
             => threads'[a].active_cards = <<>>]_vars

\* C15, reached: free conversation is executed after a guided round that had
\* an active card was left through the assessment
C15_Witness ==
    \E a \in GraphThreads :
        /\ threads[a].pending = "free_conversation"
        /\ threads[a].calling_node = "conversation"
        /\ threads[a].active_cards = <<>>
        /\ threads[a].round_start_msg_idx > 4

\* C16 as stated: in every state of a thread, the initial one included, next
\* is the name of a node of the graph or the terminal marker.
C16_NextIsNodeOrEnd ==
    \A a \in GraphThreads : threads[a].next \in NodeNames \cup {END}

\* C16, amended: next is the empty string until the first node has run to its
\* end, and the name of a node of the graph or the terminal marker from then
\* on.
C16_NextIsNodeOrEndOnceRun ==
    \A a \in GraphThreads :
        IF threads[a].pending = "greeting"
        THEN threads[a].next = ""
        ELSE threads[a].next \in NodeNames \cup {END}

\* C16, reached: the assessment has left a round for free conversation
C16_Witness ==
    \E a \in GraphThreads :
        /\ threads[a].pending = "free_conversation"
        /\ threads[a].calling_node = "conversation"
        /\ threads[a].next = "free_conversation"

\* C17: after any add_message and clear_conversation calls the history of a
\* session holds no two messages with the same id and no two consecutive
\* messages of one kind whose trimmed, lower-cased contents are equal.
C17_NoDuplicatesStored ==
    \A sid \in StoreSessions :
        LET conv == conversations[sid]
        IN  /\ \A i, j \in 1..Len(conv) : conv[i].id = conv[j].id => i = j
            /\ \A i \in 1..(Len(conv) - 1) :
                  ~(/\ conv[i].message_type = conv[i + 1].message_type
                    /\ StoreNormal(conv[i].content) = StoreNormal(conv[i + 1].content))

\* C17, reached: a history that holds one kind and content twice, more than
\* five messages apart
C17_Witness ==
    \E sid \in StoreSessions :
        LET conv == conversations[sid]
        IN  \E i, j \in 1..Len(conv) :
               /\ j > i + RecentWindow
               /\ conv[i].message_type = conv[j].message_type
               /\ StoreNormal(conv[i].content) = StoreNormal(conv[j].content)

C19_SweepDeletesOldInactive ==
    [][\A max_age_hours \in 0..MaxAgeHours :
          CleanupInactiveSessions(max_age_hours)
          => LET deleted == {sid \in SweptIds : sessions[sid].exists /\ ~sessions'[sid].exists}
             IN  /\ \A sid \in SweptIds :
                       sid \in deleted
                       <=> /\ sessions[sid].exists /\ ~sessions[sid].is_active
                           /\ seen.now - sessions[sid].last_activity
                                 > max_age_hours * TicksPerHour
                 /\ \A sid \in deleted : ~sessions'[sid].lock
                 /\ \A sid \in SweptIds \ deleted : sessions'[sid] = sessions[sid]
                 /\ seen'.returned = Cardinality(deleted)]_vars

\* C19, reached: a sweep has deleted one inactive session and left an active
\* one of the same age
C19_Witness ==
    /\ seen.returned = 1
    /\ \E s1, s2 \in SweptIds :
          /\ sessions[s1].used /\ ~sessions[s1].exists /\ ~sessions[s1].lock
          /\ sessions[s2].exists /\ sessions[s2].is_active /\ sessions[s2].lock
          /\ sessions[s2].last_activity = sessions[s1].last_activity
          /\ seen.now > sessions[s2].last_activity

\* C20 as stated: a sweep with max_age_hours = 0 deletes every inactive
\* session, whatever its last_activity, and returns their number.
C20_SweepAtZeroDeletesAllInactive ==
    [][CleanupInactiveSessions(0)
       => LET inactive == {sid \in SweptIds : sessions[sid].exists /\ ~sessions[sid].is_active}
          IN  /\ \A sid \in inactive : ~sessions'[sid].exists
              /\ seen'.returned = Cardinality(inactive)]_vars

\* C21: however create_session calls interleave, a call returns an id that
\* was neither a session nor being created when the call was made, the
\* record it stores replaces no record, no two calls return one id, and
\* _creating_sessions is empty whenever no call is between its lock and its
\* return.
C21_CreateReturnsFreshId ==
    /\ [](/\ \A p \in Callers :
                tasks[p].pc = "returned"
                => /\ tasks[p].id \notin tasks[p].before
                   /\ sessions[tasks[p].id].owner = p
          /\ \A p, q \in Callers :
                (tasks[p].pc = "returned" /\ tasks[q].pc = "returned" /\ p # q)
                => tasks[p].id # tasks[q].id
          /\ (\A p \in Callers : tasks[p].pc # "creating")
                => \A id \in Uuids : ~sessions[id].creating)
    /\ [][\A id \in Uuids : sessions[id].exists => sessions'[id] = sessions[id]]_vars

\* C21, reached: three calls have returned one after the other, and a
\* third id is free again after a call that raised
C21_Witness ==
    \E p, q, r \in Callers :
        /\ tasks[p].pc = "returned" /\ tasks[q].pc = "returned" /\ tasks[r].pc = "raised"
        /\ tasks[p].before = {} /\ tasks[q].before = {tasks[p].id}
        /\ tasks[r].before = {tasks[p].id, tasks[q].id}
        /\ ~sessions[tasks[r].id].exists /\ ~sessions[tasks[r].id].creating

\* C22: a session is active once a socket attached to it, whether it was
\* inactive before or not; a detach of the client leaves the record as it
\* is; is_active turns false only in deactivate_session, and turns true only
\* where the record is created or a socket attaches.
C22_ActiveUntilClosed ==
    [][/\ \A w \in SocketIds :
             (ConnectAccepted(w) /\ sessions[websockets[w].session_id].exists)
             => sessions'[websockets[w].session_id].is_active
       /\ \A w \in SocketIds : ClientCloses(w) => sessions' = sessions
       /\ \A sid \in SessionIds :
             /\ (sessions[sid].is_active /\ ~sessions'[sid].is_active) => DeactivateSession(sid)
             /\ (~sessions[sid].is_active /\ sessions'[sid].is_active)
                => \/ CreateSession(sid)
                   \/ \E w \in SocketIds : websockets[w].session_id = sid /\ ConnectAccepted(w)]_vars

\* C22, reached: a session that was closed after its socket went away, with
\* a second socket about to attach
C22_Witness ==
    \E sid \in SessionIds : \E w1, w2 \in SocketIds :
        /\ sessions[sid].exists /\ ~sessions[sid].is_active
        /\ websockets[w1].session_id = sid /\ websockets[w1].st = "closed"
        /\ websockets[w2].session_id = sid /\ websockets[w2].st = "accepting"

\* C23 as stated: retrieve_cards goes to free conversation with an empty
\* active card whenever the query gave no card (nothing found, a service
\* error, a connection failure, a timeout, an exception), and goes to
\* conversation with a non-empty active card only when cards were returned.
C23_NoCardMeansFreeConversation ==
    [][\A a \in GraphThreads, outcome \in CardQueryOutcomes :
          RetrieveCards(a, outcome)
          => IF outcome = "found"
             THEN threads'[a].next \in {"conversation", "free_conversation"}
             ELSE threads'[a].next = "free_conversation" /\ threads'[a].active_cards = <<>>]_vars

\* C24 as stated: the card is graded exactly when the active card holds
\* "ID: <digits>" and the assessment holds OVERALL_MASTERY with a value of 1
\* to 5; the ease is the value up to 3 and 4 from 4 on; an assessment whose
\* value is missing or not one of 1..5 leads to no tool call and no
\* tool-result message.
C24_GradedOnlyOnMasteryInRange ==
    [][\A a \in GraphThreads, topic_decision \in {"1", "2"}, assessment \in Assessments :
          (AssessmentStep(a, topic_decision, assessment) /\ threads'[a].status # "raised")
          => LET calls == {i \in 1..Len(threads'[a].log) : threads'[a].log[i].tool = "answer_card"}
                 expected == /\ Len(threads[a].messages) - threads[a].round_start_msg_idx > 0
                             /\ CardId(threads[a].active_cards) # <<>>
                             /\ OverallMasteryInRange(assessment) > 0
             IN  /\ calls # {} <=> expected
                 /\ \A i \in calls : threads'[a].log[i].ease = OverallMasteryInRange(assessment)
                 /\ calls = {} => /\ threads'[a].messages = threads[a].messages
                                  /\ \A i \in 1..Len(threads'[a].log) :
                                        threads'[a].log[i].tool # "relearn_cards"]_vars

\* C28 as stated: in an assessment step with a non-empty active card and at
\* least one message in the round, the intents switch-card and free-talk
\* append exactly one assessment record first, grade with the id of the
\* active card as it was before the reset, then reset the learning state and
\* set next to retrieve_cards or free_conversation; the intent continue
\* leaves assessment_history alone, makes no grading call and sets next to
\* conversation.
C28_AssessThenGradeThenReset ==
    [][\A a \in GraphThreads, topic_decision \in {"1", "2", "3"}, assessment \in Assessments :
          (/\ AssessmentStep(a, topic_decision, assessment)
           /\ threads[a].active_cards # <<>>
           /\ Len(threads[a].messages) - threads[a].round_start_msg_idx > 0)
          => LET before == threads[a]
                 after == threads'[a]
                 graded == {i \in 1..Len(after.log) : after.log[i].tool \in {"relearn_cards", "answer_card"}}
             IN  IF topic_decision = "3"
                 THEN /\ after.assessment_history = before.assessment_history
                      /\ after.log = <<>>
                      /\ after.next = "conversation"
                 ELSE /\ after.assessment_history.items = Append(before.assessment_history.items, assessment)
                      /\ Len(after.log) >= 2
                      /\ after.log[1] = Noted("assessment_history")
                      /\ after.log[Len(after.log)] = Noted("reset")
                      /\ \A i \in graded : after.log[i].card_id = CardId(before.active_cards)
                      /\ after.active_cards = <<>>
                      /\ after.round_start_msg_idx = Len(after.messages)
                      /\ after.next = IF topic_decision = "2" THEN "retrieve_cards" ELSE "free_conversation"]_vars

\* C29: whenever an assessment step grades a card, relearn_cards([id]) is
\* called first and answer_card(id, ease) second, each once and with the
\* same id, and exactly one tool-result message is then appended to
\* messages; answer_card is never called without relearn_cards just before.
C29_RelearnThenAnswerThenToolMessage ==
    [][\A a \in GraphThreads :
          LET log == threads'[a].log
              At(tool) == {i \in 1..Len(log) : log[i].tool = tool}
          IN  (threads[a].pending = "assessment" /\ threads'[a] # threads[a])
              => /\ Cardinality(At("answer_card")) <= 1
                 /\ Cardinality(At("relearn_cards")) = Cardinality(At("answer_card"))
                 /\ Cardinality(At("tool_message")) = Cardinality(At("answer_card"))
                 /\ \A i \in At("answer_card") :
                       /\ i > 1 /\ i < Len(log)
                       /\ log[i - 1].tool = "relearn_cards"
                       /\ log[i - 1].card_id = log[i].card_id
                       /\ log[i].ease \in 1..4
                       /\ log[i + 1] = [log[i] EXCEPT !.tool = "tool_message"]
                 /\ threads'[a].messages = IF At("answer_card") = {} THEN threads[a].messages
                                           ELSE Append(threads[a].messages, "tool")]_vars

\* a card has been graded: the log of the last assessment step holds the two
\* calls and the tool message
C29_Witness ==
    \E a \in GraphThreads :
       /\ Len(threads[a].log) >= 4
       /\ threads[a].log[2].tool = "relearn_cards"
       /\ threads[a].log[3].tool = "answer_card"
       /\ threads[a].log[3].ease = 3
       /\ threads[a].messages[Len(threads[a].messages)] = "tool"

\* C25 as stated: whenever the service answers a flashcard tool call with a
\* non-null error field E, the tool does not raise, what it returns
\* contains E verbatim, and the graph step that made the call goes on.
C25_ServiceErrorIsReturnedVerbatim ==
    \A a \in GraphThreads :
       \A E \in threads[a].tool_call.errors :
          /\ ~threads[a].tool_call.raised
          /\ Contains(threads[a].tool_call.returned, E)
          /\ threads[a].tool_call.continued

\* C25 for the tools that report the error: add_anki_note,
\* check_anki_connection and answer_card
C25_DirectToolsReturnError ==
    \A a \in GraphThreads :
       threads[a].tool_call.tool # "find_cards_to_talk_about"
       => \A E \in threads[a].tool_call.errors :
             /\ ~threads[a].tool_call.raised
             /\ Contains(threads[a].tool_call.returned, E)
             /\ threads[a].tool_call.continued

\* C26 as stated: whenever a node step produces a state whose latest
\* assistant message has pending tool calls (the thread moves on to the
\* tools node), the tool_call events are emitted after the state_change
\* event of that step and before any event of the following step: when the
\* step has been handled, the last event on the session's socket is a
\* tool_call.
C26_ToolCallEventFollowsStateChange ==
    [][\A a \in AdapterIds :
          (/\ threads[a].pending # "tools"
           /\ threads'[a].pending = "tools"
           /\ adapters[a].session_id \in SessionIds
           /\ active_connections[adapters[a].session_id] # Nobody)
          => websockets'[active_connections[adapters[a].session_id]].last_event.event_type
                = "tool_call"]_vars

\* C27 as stated: once the interrupt of an interactive node, with value V,
\* is answered by Resume(r), the node appends the assistant message with
\* content V and then the user message r, in that order and each once, and
\* sets next.
C27_ResumeAppendsShownThenReply ==
    [][\A a \in GraphThreads :
          (/\ threads[a].resume # <<>>
           /\ threads[a].pending \in InteractiveNodes
           /\ threads'[a] # threads[a]
           /\ threads'[a].status # "raised")
          => /\ threads'[a].appended = <<[kind |-> "ai", content |-> threads[a].shown],
                                         [kind |-> "human", content |-> threads[a].resume[1]]>>
             /\ threads'[a].messages = threads[a].messages \o <<"ai", "human">>
             /\ threads'[a].next \in NextAfter(threads[a].pending)]_vars

\* C27 for the nodes whose prompt is fixed, greeting and
\* mode_selection_prompt: the prompt shown and then the reply are appended
C27_PromptNodesAppendShownThenReply ==
    [][\A a \in GraphThreads :
          (/\ threads[a].resume # <<>>
           /\ threads[a].pending \in InteractiveNodes \ LLMTextNodes
           /\ threads'[a] # threads[a]
           /\ threads'[a].status # "raised")
          => /\ threads'[a].appended = <<[kind |-> "ai", content |-> threads[a].shown],
                                         [kind |-> "human", content |-> threads[a].resume[1]]>>
             /\ threads'[a].messages = threads[a].messages \o <<"ai", "human">>
             /\ threads'[a].next \in NextAfter(threads[a].pending)]_vars

\* C30 as stated: an interrupt whose similarity to the previous accepted
\* interrupt is 0.80 or more, exactly 0.80 included, is rejected by the
\* duplicate filter and produces no ai_response.
C30_SimilarInterruptRejected ==
    \A a \in FilterAdapters :
       (/\ seen[a].handled
        /\ seen[a].before.last_interrupt_content # <<>>
        /\ LET r == Similarity(seen[a].before.last_interrupt_content[1], seen[a].content)
           IN  100 * r[1] >= SimilarityPercent * r[2])
       => ~seen[a].accepted

\* C30 within the cooldown window: an interrupt that arrives before
\* interrupt_cooldown has passed since the last accepted one is dropped
C30_RejectedWithinCooldown ==
    \A a \in FilterAdapters :
       (seen[a].handled /\ seen[a].before.last_interrupt_age = "lt_cooldown") => ~seen[a].accepted

\* C30 above the threshold: a similarity of more than 0.80 is rejected
C30_MoreSimilarInterruptRejected ==
    \A a \in FilterAdapters :
       (/\ seen[a].handled
        /\ seen[a].before.last_interrupt_content # <<>>
        /\ LET r == Similarity(seen[a].before.last_interrupt_content[1], seen[a].content)
           IN  100 * r[1] > SimilarityPercent * r[2])
       => ~seen[a].accepted

\* C31 as stated: when a node raises during a stream, the loop catches the
\* exception, emits an error event, goes on, and re-invokes the graph after a
\* short backoff, without input state and with the checkpoint as it was: the
\* step that handles the raise sends error to the attached socket, leaves the
\* thread and the adapter (conversation_active) alone, and leaves the task in
\* its backoff sleep with initial_run already false.
C31_RaiseIsRetriedAfterBackoff ==
    [][\A a \in AdapterIds :
          (tasks[a].pc = "stream" /\ tasks'[a].pc \in {"sleep", "error"})
          => /\ tasks'[a].pc = "sleep"
             /\ threads'[a] = threads[a]
             /\ adapters'[a] = adapters[a]
             /\ ~tasks'[a].initial_run
             /\ (active_connections[adapters[a].session_id] # Nobody
                 => websockets'[active_connections[adapters[a].session_id]].last_event.event_type
                       = "error")]_vars

\* C31 without the backoff: a raise is caught, error is sent, the loop goes
\* on and the retry runs on the unchanged checkpoint without input state
C31_RaiseIsRetriedFromCheckpoint ==
    [][\A a \in AdapterIds :
          (tasks[a].pc = "stream" /\ tasks'[a].pc \in {"sleep", "error"})
          => /\ threads'[a] = threads[a]
             /\ adapters'[a] = adapters[a]
             /\ ~tasks'[a].initial_run
             /\ (active_connections[adapters[a].session_id] # Nobody
                 => websockets'[active_connections[adapters[a].session_id]].last_event.event_type
                       = "error")]_vars

\* C32 as stated: a node whose LLM call fails on every attempt is retried at
\* most 3 times, after which the loop stops retrying: the streams of a
\* thread never raise more than 4 times in a row (the first attempt and three
\* retries).
C32_RetriesAreBounded ==
    \A a \in AdapterIds : seen[a].raises.n <= 4

\* C33 as stated: find_cards_to_talk_about queries due, learning, review, any
\* in that order, stops at the first category that holds cards and reports
\* the cards under that category; when no category holds a card it makes
\* exactly four queries and returns "No cards found".
C33_FirstCategoryWithCardsIsReported ==
    \A a \in GraphThreads :
        LET call == threads[a].tool_call
        IN  call.tool = "find_cards_to_talk_about"
            => /\ \E n \in 1..4 : call.queries = SubSeq(SearchQueries, 1, n)
               /\ \A i \in 1..Len(call.queries) - 1 : call.holds[i] = "empty"
               /\ IF \E i \in 1..4 : call.holds[i] = "some"
                  THEN /\ call.holds[Len(call.queries)] = "some"
                       /\ call.category = SearchQueries[Len(call.queries)]
                       /\ call.returned = CardQueryResults.found
                  ELSE /\ call.queries = SearchQueries
                       /\ call.returned = CardQueryResults.none

\* C33 amended: the same, and the cards are reported under the category when
\* cardsInfo returns their details; when it returns nothing the tool returns
\* "Error: Could not retrieve card details."
C33_FirstCategoryWithCardsIsSelected ==
    \A a \in GraphThreads :
        LET call == threads[a].tool_call
        IN  call.tool = "find_cards_to_talk_about"
            => /\ \E n \in 1..4 : call.queries = SubSeq(SearchQueries, 1, n)
               /\ \A i \in 1..Len(call.queries) - 1 : call.holds[i] = "empty"
               /\ IF \E i \in 1..4 : call.holds[i] = "some"
                  THEN /\ call.holds[Len(call.queries)] = "some"
                       /\ call.category = SearchQueries[Len(call.queries)]
                       /\ call.returned = IF call.details = "some" THEN CardQueryResults.found
                                          ELSE CardQueryResults.details
                  ELSE /\ call.queries = SearchQueries
                       /\ call.category = "None"
                       /\ call.returned = CardQueryResults.none

\* C33 witness: the review category is the first that holds cards (any holds
\* some too), three queries were made and the cards were reported
C33_Witness ==
    \E a \in GraphThreads :
        /\ threads[a].tool_call.tool = "find_cards_to_talk_about"
        /\ threads[a].tool_call.holds = <<"empty", "empty", "some", "some">>
        /\ threads[a].tool_call.queries = <<"due", "learning", "review">>
        /\ threads[a].tool_call.category = "review"
        /\ threads[a].tool_call.returned = CardQueryResults.found

\* C34 as stated: when a second attach is rejected because the session
\* already has a channel, the cleanup of the rejected handler leaves the
\* existing attachment as it was: the first channel is still registered and
\* its orchestrator is still present and running.
C34_RejectedAttachLeavesAttachment ==
    [][\A w \in SocketIds :
          LET sid == websockets[w].session_id
              first == active_connections[sid]
              a == session_adapters[sid]
          IN  (/\ websockets[w].st = "rejecting" /\ websockets'[w].st = "closed"
               /\ first # Nobody /\ websockets[first].st = "serving"
               /\ a # Nobody /\ adapters[a].conversation_active)
              => /\ active_connections'[sid] = first
                 /\ session_adapters'[sid] = a
                 /\ adapters'[a].conversation_active]_vars

\* C35 as stated, its safety half: send_user_message never accepts a message
\* into the queue of a drive loop that has already returned (after a timeout,
\* exit, the end of the conversation or a fatal error); a message accepted
\* there can never be dequeued.
C35_NoMessageAcceptedAfterLoopEnded ==
    [][\A a \in AdapterIds :
          Len(adapters'[a].input_queue) > Len(adapters[a].input_queue)
          => tasks[a].pc # "done"]_vars

\* C36 as stated: every user message the orchestrator accepted (message_sent
\* was confirmed) is recorded exactly once in the conversation history of
\* its session, also when its content equals an earlier reply: the history
\* holds as many user messages as were accepted.
C36_AcceptedMessageRecordedOnce ==
    \A sid \in SessionIds :
        session_adapters[sid] # Nobody
        => Cardinality({i \in 1..Len(conversations[sid]) :
                           conversations[sid][i].message_type = "user"})
              = seen[session_adapters[sid]].turns

\* C37 as stated: a session with a push channel attached and an orchestrator
\* is never deleted by the inactive-session sweep, whatever the sequence of
\* attach, management close and sweep calls: whenever a channel is attached
\* and served for an id, the session record of that id exists.
C37_AttachedSessionIsNotSwept ==
    \A sid \in SessionIds :
        (/\ active_connections[sid] # Nobody
         /\ websockets[active_connections[sid]].st = "serving"
         /\ session_adapters[sid] # Nobody)
        => sessions[sid].exists

\* C38: whenever the tools node is about to run, calling_node is the node
\* that produced the pending tool calls, conversation or free_conversation;
\* the step of the tools node does not raise, does not take the fail-safe
\* (mode_selection_prompt) and goes back to that node, which is one of the
\* destinations declared for tools.
C38_ToolsReturnToIssuingNode ==
    [][\A a \in GraphThreads :
          /\ (threads[a].pending # "tools" /\ threads'[a].pending = "tools")
             => /\ threads[a].pending \in {"conversation", "free_conversation"}
                /\ threads'[a].calling_node = threads[a].pending
                /\ threads'[a].messages[Len(threads'[a].messages)] = "ai_tool_calls"
          /\ (threads[a].pending = "tools" /\ threads'[a] # threads[a])
             => /\ threads'[a].status = "ready"
                /\ threads'[a].pending = threads[a].calling_node
                /\ threads'[a].calling_node = threads[a].calling_node
                /\ threads'[a].pending \in Destinations("tools")
                /\ threads'[a].pending # "mode_selection_prompt"]_vars

\* C38 witness: the tools node has run for free_conversation and the thread
\* is back in free_conversation, the tool call and its ToolMessage being the
\* last two messages
C38_Witness ==
    \E a \in GraphThreads :
        /\ threads[a].pending = "free_conversation"
        /\ threads[a].calling_node = "free_conversation"
        /\ threads[a].status = "ready"
        /\ Len(threads[a].messages) >= 2
        /\ threads[a].messages[Len(threads[a].messages) - 1] = "ai_tool_calls"
        /\ threads[a].messages[Len(threads[a].messages)] = "tool"

\* C39 as stated: a free_conversation_eval step completes without raising
\* for every answer of the classifier and of the assessor and leaves next in
\* {free_conversation, retrieve_cards, mode_selection_prompt}; when the
\* assessor answers NO_ASSESSMENT (and the classifier keeps the free
\* conversation) the step leaves assessment_history and messages as they
\* were and sets next to free_conversation.
C39_EvalStepCompletes ==
    [][\A a \in GraphThreads :
          (threads[a].pending = "free_conversation_eval" /\ threads'[a] # threads[a])
          => /\ threads'[a].status = "ready"
             /\ threads'[a].next \in {"free_conversation", "retrieve_cards", "mode_selection_prompt"}
             /\ (NoAssessment(threads'[a].eval.assessment)
                    /\ ~Contains(threads'[a].eval.topic_decision, <<"1">>))
                => /\ threads'[a].assessment_history = threads[a].assessment_history
                   /\ threads'[a].messages = threads[a].messages
                   /\ threads'[a].next = "free_conversation"]_vars

\* C40 as stated: the duplicate filter suppresses an interrupt only if the
\* adapter was already waiting for input, or the interrupt came within the
\* cooldown of the last accepted one, or its similarity to the last accepted
\* one is at or above the threshold, or one of its normalized contents or
\* content hashes is in the recent sets; an interrupt that meets none of the
\* four is delivered as an ai_response.
C40_SuppressedOnlyByListedConditions ==
    \A a \in FilterAdapters :
       (seen[a].handled /\ ~seen[a].accepted)
       => \/ seen[a].before.waiting_for_input
          \/ seen[a].before.last_interrupt_age = "lt_cooldown"
          \/ /\ seen[a].before.last_interrupt_content # <<>>
             /\ LET r == Similarity(seen[a].before.last_interrupt_content[1], seen[a].content)
                IN  100 * r[1] >= SimilarityPercent * r[2]
          \/ \E i \in 1..6 :
                \/ Checks(seen[a].content)[i] \in seen[a].before.sent_message_contents
                \/ Checks(seen[a].content)[i] \in seen[a].before.sent_message_hashes


=============================================================================
